---- MODULE Spec2Model ----
(***************************************************************************)
(* A model of clean_eeg/modify_edf_inplace.py: the in-place EDF+ header    *)
(* rewriter (update_edf_header_inplace), the header validator              *)
(* (clean_header) and the TAL annotation-record parser                     *)
(* (parse_edf_annotation_record).                                          *)
(*                                                                         *)
(* Bytes are one-character strings; the three EDF+ reserved bytes 0x00,    *)
(* 0x14 and 0x15 are written NUL, TXT and DUR.  A file is the sequence of  *)
(* its bytes, 1-based here (byte offset k of the file is element k+1).     *)
(***************************************************************************)
EXTENDS Integers, Sequences, FiniteSets, TLC

VARIABLES
    parser,    \* parse_edf_annotation_record: its input, locals and position
    given,     \* the parser's input: the record, and the triples it was serialized from
    clean,     \* clean_header: its arguments, position and result
    fs,        \* the files on disk: the target at edf_path, the scratch at edf_path + ".tmp"
    call,      \* update_edf_header_inplace: its arguments, locals and position
    hist       \* history: the target before the call, the writes to the target so far

vars == <<parser, given, clean, fs, call, hist>>

(***************************************************************************)
(* Bytes                                                                   *)
(***************************************************************************)
NUL == "x00"
TXT == "x14"
DUR == "x15"

Digits == <<"0", "1", "2", "3", "4", "5", "6", "7", "8", "9">>

IsDigit(c) == \E d \in 1..10 : Digits[d] = c

DigitVal(c) == (CHOOSE d \in 1..10 : Digits[d] = c) - 1

\* content[a:b] of Python, on 0-based indices, for 0 <= a and b <= len
Slice(s, a, b) == IF b <= a THEN <<>> ELSE SubSeq(s, a + 1, b)

\* content[k] of Python, 0-based
At(s, k) == s[k + 1]

RECURSIVE Concat(_)
Concat(ss) == IF ss = <<>> THEN <<>> ELSE Head(ss) \o Concat(Tail(ss))

RECURSIVE Pow10(_)
Pow10(k) == IF k = 0 THEN 1 ELSE 10 * Pow10(k - 1)

(***************************************************************************)
(* float(str) of Python, on the strings the model can build: an optional   *)
(* sign, then digits with at most one decimal point and at least one       *)
(* digit; surrounding spaces are ignored.  Anything else is a ValueError   *)
(* (ok = FALSE).  A number is kept exactly, as num / 10^k with no trailing *)
(* zero in num.                                                            *)
(***************************************************************************)
RECURSIVE LStrip(_)
LStrip(s) == IF s # <<>> /\ Head(s) = " " THEN LStrip(Tail(s)) ELSE s

RECURSIVE RStrip(_)
RStrip(s) == IF s # <<>> /\ s[Len(s)] = " " THEN RStrip(SubSeq(s, 1, Len(s) - 1)) ELSE s

\* str.strip()
Strip(s) == LStrip(RStrip(s))

RECURSIVE DigitsVal(_)
DigitsVal(s) == IF s = <<>> THEN 0 ELSE 10 * DigitsVal(SubSeq(s, 1, Len(s) - 1)) + DigitVal(s[Len(s)])

RECURSIVE Norm(_, _)
Norm(num, k) == IF k > 0 /\ num % 10 = 0 THEN Norm(num \div 10, k - 1) ELSE [num |-> num, k |-> k]

Number(neg, num, k) == LET n == Norm(num, k) IN [num |-> IF neg THEN 0 - n.num ELSE n.num, k |-> n.k]

PyFloat(str) ==
    LET t == Strip(str)
        signed == t # <<>> /\ Head(t) \in {"+", "-"}
        neg == signed /\ Head(t) = "-"
        body == IF signed THEN Tail(t) ELSE t
        dots == {p \in 1..Len(body) : body[p] = "."}
        dot == IF dots = {} THEN Len(body) + 1 ELSE CHOOSE p \in dots : TRUE
        ip == SubSeq(body, 1, dot - 1)
        fp == SubSeq(body, dot + 1, Len(body))
    IN  IF /\ Cardinality(dots) <= 1
           /\ \A p \in 1..Len(ip) : IsDigit(ip[p])
           /\ \A p \in 1..Len(fp) : IsDigit(fp[p])
           /\ Len(ip) + Len(fp) >= 1
        THEN [ok |-> TRUE, v |-> Number(neg, DigitsVal(ip \o fp), Len(fp))]
        ELSE [ok |-> FALSE, v |-> Number(FALSE, 0, 0)]

\* variant: a TAL that states no duration has duration 0
NoDuration_zero == Number(FALSE, 0, 0)

\* -1.0, the duration of a TAL that states none
NoDuration == Number(TRUE, 1, 0)

(***************************************************************************)
(* parse_edf_annotation_record, one step per loop test.  pc names the loop *)
(* whose test comes next; every step runs the code from that test to the   *)
(* next one.                                                               *)
(***************************************************************************)
\* a local not assigned yet
Unset == 0 - 1

UnsetNumber == [num |-> 0, k |-> 0]

ParserAt(record) ==
    [pc |-> "start", content |-> record, null_pos |-> Unset, i |-> Unset,
     onset_start |-> Unset, onset |-> UnsetNumber, duration |-> UnsetNumber,
     duration_start |-> Unset, text_start |-> Unset,
     ann_onsets |-> <<>>, ann_durations |-> <<>>, ann_texts |-> <<>>]

\* variant: the last null byte is looked for, as content.rfind does
FindNull_last(content) ==
    LET nulls == {p \in 0..(Len(content) - 1) : At(content, p) = NUL}
    IN  IF nulls = {} THEN Len(content)
        ELSE CHOOSE p \in nulls : \A q \in nulls : p >= q

\* content.find('\x00'), or len(content) where find returns -1
FindNull(content) ==
    LET nulls == {p \in 0..(Len(content) - 1) : At(content, p) = NUL}
    IN  IF nulls = {} THEN Len(content)
        ELSE CHOOSE p \in nulls : \A q \in nulls : p <= q

\* lines 266-280: the empty result lists, null_pos, i = 0
ParseStart ==
    /\ parser.pc = "start"
    /\ parser' = [parser EXCEPT !.pc = "tal", !.null_pos = FindNull(parser.content), !.i = 0]
    /\ UNCHANGED <<given, clean, fs, call, hist>>

\* lines 281-288: the outer loop's test, the sign, the start of the onset
ParseTal ==
    /\ parser.pc = "tal"
    /\ LET c == parser.content
           i == parser.i
       IN  IF i < parser.null_pos /\ At(c, i) \in {"+", "-"}
           THEN parser' = [parser EXCEPT !.pc = "onset", !.onset_start = i, !.i = i + 1]
           ELSE parser' = [parser EXCEPT !.pc = "done"]
    /\ UNCHANGED <<given, clean, fs, call, hist>>

\* lines 316-317, shared by the two ways of reaching them
AfterDuration(p, i, duration) ==
    IF i >= Len(p.content) \/ At(p.content, i) # TXT
    THEN [p EXCEPT !.pc = "done", !.i = i, !.duration = duration]
    ELSE [p EXCEPT !.pc = "texts", !.i = i, !.duration = duration]

\* lines 289-317: one test of the onset scan; on leaving it, the onset, the
\* duration delimiter and (without one) the text delimiter
ParseOnset ==
    /\ parser.pc = "onset"
    /\ LET c == parser.content
           i == parser.i
           onset == PyFloat(Slice(c, parser.onset_start, i)).v
       IN  IF i < Len(c) /\ At(c, i) \notin {TXT, DUR, NUL}
           THEN parser' = [parser EXCEPT !.i = i + 1]
           ELSE IF i >= Len(c) \/ ~PyFloat(Slice(c, parser.onset_start, i)).ok
           THEN parser' = [parser EXCEPT !.pc = "done"]
           ELSE IF At(c, i) = DUR
           THEN parser' = [parser EXCEPT !.pc = "duration", !.onset = onset,
                                         !.duration = NoDuration,
                                         !.i = i + 1, !.duration_start = i + 1]
           ELSE parser' = AfterDuration([parser EXCEPT !.onset = onset], i, NoDuration)
    /\ UNCHANGED <<given, clean, fs, call, hist>>

\* lines 306-317: one test of the duration scan; on leaving it, the duration
ParseDuration ==
    /\ parser.pc = "duration"
    /\ LET c == parser.content
           i == parser.i
           duration_str == Slice(c, parser.duration_start, i)
           duration == IF duration_str = <<>> \/ ~PyFloat(duration_str).ok
                       THEN NoDuration ELSE PyFloat(duration_str).v
       IN  IF i < Len(c) /\ At(c, i) \notin {TXT, NUL}
           THEN parser' = [parser EXCEPT !.i = i + 1]
           ELSE parser' = AfterDuration(parser, i, duration)
    /\ UNCHANGED <<given, clean, fs, call, hist>>

\* a variant of ParseTexts that does not skip the text delimiter (line 322)
ParseTexts_unskipped ==
    /\ parser.pc = "texts"
    /\ LET c == parser.content
           i == parser.i
       IN  IF i < Len(c) /\ At(c, i) = TXT
           THEN parser' = [parser EXCEPT !.pc = "text", !.text_start = i]
           ELSE parser' = [parser EXCEPT !.pc = "tal"]
    /\ UNCHANGED <<given, clean, fs, call, hist>>

\* lines 321-323: the test of the loop over the texts of one TAL
ParseTexts ==
    /\ parser.pc = "texts"
    /\ LET c == parser.content
           i == parser.i
       IN  IF i < Len(c) /\ At(c, i) = TXT
           THEN parser' = [parser EXCEPT !.pc = "text", !.i = i + 1, !.text_start = i + 1]
           ELSE parser' = [parser EXCEPT !.pc = "tal"]
    /\ UNCHANGED <<given, clean, fs, call, hist>>

\* lines 324-337: one test of the text scan; on leaving it, the triple and
\* the end of the TAL
ParseText ==
    /\ parser.pc = "text"
    /\ LET c == parser.content
           i == parser.i
           text == Slice(c, parser.text_start, i)
           emitted == IF text # <<>>
                      THEN [parser EXCEPT !.ann_onsets = Append(@, parser.onset),
                                          !.ann_durations = Append(@, parser.duration),
                                          !.ann_texts = Append(@, text)]
                      ELSE parser
       IN  IF i < Len(c) /\ At(c, i) \notin {TXT, NUL}
           THEN parser' = [parser EXCEPT !.i = i + 1]
           ELSE IF i < Len(c) /\ At(c, i) = NUL
           THEN parser' = [emitted EXCEPT !.pc = "tal", !.i = i + 1]
           ELSE parser' = [emitted EXCEPT !.pc = "texts"]
    /\ UNCHANGED <<given, clean, fs, call, hist>>

parse_edf_annotation_record ==
    ParseStart \/ ParseTal \/ ParseOnset \/ ParseDuration \/ ParseTexts \/ ParseText

\* the (onsets, durations, texts) a finished call returns, as triples
Returned(p) == [k \in 1..Len(p.ann_texts) |-> <<p.ann_onsets[k], p.ann_durations[k], p.ann_texts[k]>>]

(***************************************************************************)
(* The inverse of the parser, after the TAL byte grammar: every triple is  *)
(* written as one TAL, sign onset [DUR duration] TXT text TXT NUL, the     *)
(* TALs follow one another in order, optionally after the time-keeping TAL *)
(* "+0" TXT TXT NUL, and null bytes pad the record to its fixed length.    *)
(***************************************************************************)
RECURSIVE NatStr(_)
NatStr(n) == IF n < 10 THEN <<Digits[n + 1]>> ELSE NatStr(n \div 10) \o <<Digits[(n % 10) + 1]>>

RECURSIVE FracStr(_, _)
FracStr(n, k) == IF k = 0 THEN <<>> ELSE FracStr(n \div 10, k - 1) \o <<Digits[(n % 10) + 1]>>

Abs(n) == IF n < 0 THEN 0 - n ELSE n

\* the decimal digits of a number, without sign
UnsignedStr(v) ==
    NatStr(Abs(v.num) \div Pow10(v.k))
        \o (IF v.k = 0 THEN <<>> ELSE <<".">> \o FracStr(Abs(v.num) % Pow10(v.k), v.k))

OnsetStr(v) == <<IF v.num < 0 THEN "-" ELSE "+">> \o UnsignedStr(v)

SerializeTAL(t) ==
    OnsetStr(t[1])
        \o (IF t[2] = NoDuration THEN <<>> ELSE <<DUR>> \o UnsignedStr(t[2]))
        \o <<TXT>> \o t[3] \o <<TXT, NUL>>

TimeKeepingTAL == <<"+", "0", TXT, TXT, NUL>>

SerializeTALs(triples, timekeeping) ==
    (IF timekeeping THEN TimeKeepingTAL ELSE <<>>)
        \o Concat([k \in 1..Len(triples) |-> SerializeTAL(triples[k])])

Padded(bytes, length) == bytes \o [k \in 1..(length - Len(bytes)) |-> NUL]

(***************************************************************************)
(* The fixed layout of the 256-byte main header and of one signal's share  *)
(* of the signal-header region: field |-> <<offset, length, type>>.        *)
(***************************************************************************)
TOTAL_HEADER_BYTES == 256
SIGNAL_HEADER_BYTES == 256

EDF_HEADER_FIELD_OFFSETS_LENGTHS ==
    [version |-> <<0, 8, "int">>,
     patient_id |-> <<8, 80, "str">>,
     recording_id |-> <<88, 80, "str">>,
     startdate |-> <<168, 8, "str">>,
     starttime |-> <<176, 8, "str">>,
     header_bytes |-> <<184, 8, "int">>,
     reserved |-> <<192, 44, "str">>,
     num_data_records |-> <<236, 8, "int">>,
     data_record_duration |-> <<244, 8, "int">>,
     num_signals |-> <<252, 4, "int">>]

EDF_SIGNAL_HEADER_FIELD_OFFSETS_LENGTHS ==
    [label |-> <<0, 16, "str">>,
     transducer_type |-> <<16, 80, "str">>,
     physical_dimension |-> <<96, 8, "str">>,
     physical_min |-> <<104, 8, "int">>,
     physical_max |-> <<112, 8, "int">>,
     digital_min |-> <<120, 8, "int">>,
     digital_max |-> <<128, 8, "int">>,
     prefiltering |-> <<136, 80, "str">>,
     num_samples |-> <<216, 8, "int">>,
     reserved |-> <<224, 32, "None">>]

(***************************************************************************)
(* clean_header.  A header is a dict: a function from its keys to values   *)
(* [type, s], s being the characters of a str.  The result is the outcome  *)
(* ("ok", or the exception raised) and the header returned.                *)
(***************************************************************************)
Str(chars) == [type |-> "str", s |-> chars]
ADate == [type |-> "date", s |-> <<>>]
NotAStr == [type |-> "int", s |-> <<>>]

str_fields ==
    <<"technician", "recording_additional", "patientname", "patient_additional",
      "patientcode", "equipment", "admincode", "sex", "birthdate", "gender">>

\* lines 105-115, for the fields from the k-th on: the first exception ends it
RECURSIVE CleanFields(_, _, _)
CleanFields(header, k, raise_errors) ==
    IF k > Len(str_fields) THEN [outcome |-> "ok", header |-> header]
    ELSE LET field == str_fields[k]
             max_length == EDF_HEADER_FIELD_OFFSETS_LENGTHS[field][2]
         IN  IF field \notin DOMAIN header
             THEN [outcome |-> "AssertionError", header |-> header]
             ELSE IF header[field].type # "str"
             THEN [outcome |-> "ValueError", header |-> header]
             ELSE IF field \notin DOMAIN EDF_HEADER_FIELD_OFFSETS_LENGTHS
             THEN [outcome |-> "KeyError", header |-> header]
             ELSE IF Len(header[field].s) > max_length
             THEN IF raise_errors
                  THEN [outcome |-> "ValueError", header |-> header]
                  ELSE CleanFields([header EXCEPT ![field] = Str(SubSeq(header[field].s, 1, max_length))],
                                   k + 1, raise_errors)
             ELSE CleanFields(header, k + 1, raise_errors)

clean_header(header, raise_errors) ==
    LET cleaned == CleanFields(header, 1, raise_errors)
    IN  IF cleaned.outcome # "ok" THEN cleaned
        ELSE IF "startdate" \notin DOMAIN header
        THEN [outcome |-> "AssertionError", header |-> cleaned.header]
        ELSE IF header["startdate"].type # "date"
        THEN [outcome |-> "ValueError", header |-> cleaned.header]
        ELSE cleaned

\* one call of clean_header
CleanHeader ==
    /\ clean.pc = "call"
    /\ LET r == clean_header(clean.header, clean.raise_errors)
       IN  clean' = [clean EXCEPT !.pc = "done", !.outcome = r.outcome, !.result = r.header]
    /\ UNCHANGED <<parser, given, fs, call, hist>>

(***************************************************************************)
(* The EDF+ codec the rewriter delegates to (pyedflib's EdfReader and      *)
(* EdfWriter), as far as the rewriter depends on it.                       *)
(*                                                                         *)
(* A header dict maps the pyedflib keys to character strings (startdate to *)
(* a date).  The writer stores the five patient keys as the space-         *)
(* separated tokens of patient_id and the recording keys, after            *)
(* "Startdate" and the date, as those of recording_id; an empty value is   *)
(* written as the token "X" and sex as M, F or X.  Every field is left-    *)
(* justified and space-padded to its fixed length, numbers in decimal.     *)
(* The reader inverts this.  Values hold no space, so that the tokens      *)
(* delimit them.                                                           *)
(***************************************************************************)
Spaces(n) == [k \in 1..n |-> " "]

\* left-justified in exactly n bytes: space-padded, or cut to n
Pad(chars, n) == IF Len(chars) >= n THEN SubSeq(chars, 1, n) ELSE chars \o Spaces(n - Len(chars))

IntStr(n) == IF n < 0 THEN <<"-">> \o NatStr(0 - n) ELSE NatStr(n)

\* int(str) on a stripped decimal
PyInt(chars) ==
    LET t == Strip(chars)
    IN  IF t # <<>> /\ Head(t) = "-" THEN 0 - DigitsVal(Tail(t)) ELSE DigitsVal(t)

RECURSIVE Join(_)
Join(tokens) ==
    IF tokens = <<>> THEN <<>>
    ELSE IF Len(tokens) = 1 THEN tokens[1]
    ELSE tokens[1] \o <<" ">> \o Join(Tail(tokens))

\* str.split(): the maximal runs of non-space characters
RECURSIVE Split(_)
Split(chars) ==
    LET t == LStrip(chars)
        ends == {p \in 1..Len(t) : t[p] = " "}
        stop == IF ends = {} THEN Len(t) + 1 ELSE CHOOSE p \in ends : \A q \in ends : p <= q
    IN  IF t = <<>> THEN <<>>
        ELSE <<SubSeq(t, 1, stop - 1)>> \o Split(SubSeq(t, stop, Len(t)))

Token(chars) == IF chars = <<>> THEN <<"X">> ELSE chars
Untoken(chars) == IF chars = <<"X">> THEN <<>> ELSE chars

SexToken(chars) ==
    CASE chars = <<"M", "a", "l", "e">> -> <<"M">>
      [] chars = <<"F", "e", "m", "a", "l", "e">> -> <<"F">>
      [] OTHER -> <<"X">>

SexOfToken(chars) ==
    CASE chars = <<"M">> -> <<"M", "a", "l", "e">>
      [] chars = <<"F">> -> <<"F", "e", "m", "a", "l", "e">>
      [] OTHER -> <<>>

\* a date is the two digits of its day; month, year and time are fixed
StartdateField(date) == date \o <<".", "0", "1", ".", "8", "5">>
StarttimeField == <<"0", "0", ".", "0", "0", ".", "0", "0">>
StartdateToken(date) == date \o <<"-", "J", "A", "N", "-", "1", "9", "8", "5">>

PatientId(h) ==
    Join(<<Token(h.patientcode), SexToken(h.sex), Token(h.birthdate),
           Token(h.patientname)>> \o (IF h.patient_additional = <<>> THEN <<>> ELSE <<h.patient_additional>>))

RecordingId(h) ==
    Join(<<<<"S", "t", "a", "r", "t", "d", "a", "t", "e">>, StartdateToken(h.startdate),
           Token(h.admincode), Token(h.technician), Token(h.equipment)>>
         \o (IF h.recording_additional = <<>> THEN <<>> ELSE <<h.recording_additional>>))

HeaderFieldOrder ==
    <<"version", "patient_id", "recording_id", "startdate", "starttime", "header_bytes",
      "reserved", "num_data_records", "data_record_duration", "num_signals">>

\* the 256 bytes of a main header with the given field contents
MainHeaderBytes(fields) ==
    Concat([k \in 1..Len(HeaderFieldOrder) |->
               Pad(fields[HeaderFieldOrder[k]], EDF_HEADER_FIELD_OFFSETS_LENGTHS[HeaderFieldOrder[k]][2])])

\* what the writer puts in the main header of a file of n_signals ordinary
\* signals plus the annotation signal, with the given record count and
\* duration; the writer only writes continuous EDF+ files
WriteMainHeader(h, n_signals, n_records, duration) ==
    MainHeaderBytes(
        [version |-> <<"0">>,
         patient_id |-> PatientId(h),
         recording_id |-> RecordingId(h),
         startdate |-> StartdateField(h.startdate),
         starttime |-> StarttimeField,
         header_bytes |-> IntStr(TOTAL_HEADER_BYTES + SIGNAL_HEADER_BYTES * (n_signals + 1)),
         reserved |-> <<"E", "D", "F", "+", "C">>,
         num_data_records |-> IntStr(n_records),
         data_record_duration |-> IntStr(duration),
         num_signals |-> IntStr(n_signals + 1)])

\* the raw bytes of a main-header field of a file
HeaderFieldBytes(file, field) ==
    SubSeq(file, EDF_HEADER_FIELD_OFFSETS_LENGTHS[field][1] + 1,
           EDF_HEADER_FIELD_OFFSETS_LENGTHS[field][1] + EDF_HEADER_FIELD_OFFSETS_LENGTHS[field][2])

Nth(tokens, k) == IF k <= Len(tokens) THEN tokens[k] ELSE <<"X">>

\* EdfReader.getHeader()
getHeader(file) ==
    LET pt == Split(HeaderFieldBytes(file, "patient_id"))
        rt == Split(HeaderFieldBytes(file, "recording_id"))
    IN  [patientcode |-> Untoken(Nth(pt, 1)),
         sex |-> SexOfToken(Nth(pt, 2)),
         birthdate |-> Untoken(Nth(pt, 3)),
         patientname |-> Untoken(Nth(pt, 4)),
         patient_additional |-> Join(SubSeq(pt, 5, Len(pt))),
         admincode |-> Untoken(Nth(rt, 3)),
         technician |-> Untoken(Nth(rt, 4)),
         equipment |-> Untoken(Nth(rt, 5)),
         recording_additional |-> Join(SubSeq(rt, 6, Len(rt))),
         startdate |-> SubSeq(HeaderFieldBytes(file, "startdate"), 1, 2)]

(***************************************************************************)
(* Signal headers.  A file of n ordinary signals has n + 1 slots, the last *)
(* one the "EDF Annotations" signal the writer adds.  The region is        *)
(* column-major: field by field, and slot by slot within a field.  A       *)
(* signal-header dict has the pyedflib keys; the numbers are integers.     *)
(***************************************************************************)
SignalFieldOrder ==
    <<"label", "transducer_type", "physical_dimension", "physical_min", "physical_max",
      "digital_min", "digital_max", "prefiltering", "num_samples", "reserved">>

AnnotationLabel == <<"E", "D", "F", " ", "A", "n", "n", "o", "t", "a", "t", "i", "o", "n", "s">>

\* the samples per record of the annotation signal
AnnotationSamples == 3

\* the field contents of the slot of an ordinary signal
SlotFields(sh, duration) ==
    [label |-> sh.label,
     transducer_type |-> sh.transducer,
     physical_dimension |-> sh.dimension,
     physical_min |-> IntStr(sh.physical_min),
     physical_max |-> IntStr(sh.physical_max),
     digital_min |-> IntStr(sh.digital_min),
     digital_max |-> IntStr(sh.digital_max),
     prefiltering |-> sh.prefilter,
     num_samples |-> IntStr(sh.sample_frequency * duration),
     reserved |-> <<>>]

AnnotationSlot ==
    [label |-> AnnotationLabel,
     transducer_type |-> <<>>,
     physical_dimension |-> <<>>,
     physical_min |-> IntStr(0 - 1),
     physical_max |-> IntStr(1),
     digital_min |-> IntStr(0 - 32768),
     digital_max |-> IntStr(32767),
     prefiltering |-> <<>>,
     num_samples |-> IntStr(AnnotationSamples),
     reserved |-> <<>>]

\* the signal-header region the writer produces for the given signal headers
WriteSignalHeaders(signal_headers, duration) ==
    LET slots == [j \in 1..Len(signal_headers) |-> SlotFields(signal_headers[j], duration)]
                     \o <<AnnotationSlot>>
    IN  Concat([k \in 1..Len(SignalFieldOrder) |->
                   Concat([j \in 1..Len(slots) |->
                              Pad(slots[j][SignalFieldOrder[k]],
                                  EDF_SIGNAL_HEADER_FIELD_OFFSETS_LENGTHS[SignalFieldOrder[k]][2])])])

\* the signal headers a new EdfWriter has before setSignalHeaders
DefaultSignalHeader(j) ==
    [label |-> <<"c", "h">> \o NatStr(j - 1), transducer |-> <<>>, dimension |-> <<"m", "V">>,
     physical_min |-> 0 - 1, physical_max |-> 1, digital_min |-> 0 - 32768, digital_max |-> 32767,
     prefilter |-> <<>>, sample_frequency |-> 100]

\* the number of signal-header slots a file declares
SlotCount(file) == PyInt(HeaderFieldBytes(file, "num_signals"))

\* the raw bytes of one field of slot j (0-based) of a file
SlotFieldBytes(file, j, field) ==
    LET offset == EDF_SIGNAL_HEADER_FIELD_OFFSETS_LENGTHS[field][1]
        length == EDF_SIGNAL_HEADER_FIELD_OFFSETS_LENGTHS[field][2]
        start == TOTAL_HEADER_BYTES + SlotCount(file) * offset + j * length
    IN  SubSeq(file, start + 1, start + length)

\* the slots (0-based, in file order) of the ordinary signals of a file
OrdinarySlots(file) ==
    LET all == {j \in 0..(SlotCount(file) - 1) : Strip(SlotFieldBytes(file, j, "label")) # AnnotationLabel}
        RECURSIVE InOrder(_)
        InOrder(js) == IF js = {} THEN <<>>
                       ELSE LET j == CHOOSE x \in js : \A y \in js : x <= y
                            IN  <<j>> \o InOrder(js \ {j})
    IN  InOrder(all)

\* EdfReader.getSignalHeaders(): the ordinary signals, in file order
getSignalHeaders(file) ==
    LET slots == OrdinarySlots(file)
        duration == PyInt(HeaderFieldBytes(file, "data_record_duration"))
    IN  [i \in 1..Len(slots) |->
            [label |-> Strip(SlotFieldBytes(file, slots[i], "label")),
             transducer |-> Strip(SlotFieldBytes(file, slots[i], "transducer_type")),
             dimension |-> Strip(SlotFieldBytes(file, slots[i], "physical_dimension")),
             physical_min |-> PyInt(SlotFieldBytes(file, slots[i], "physical_min")),
             physical_max |-> PyInt(SlotFieldBytes(file, slots[i], "physical_max")),
             digital_min |-> PyInt(SlotFieldBytes(file, slots[i], "digital_min")),
             digital_max |-> PyInt(SlotFieldBytes(file, slots[i], "digital_max")),
             prefilter |-> Strip(SlotFieldBytes(file, slots[i], "prefiltering")),
             sample_frequency |-> PyInt(SlotFieldBytes(file, slots[i], "num_samples")) \div duration]]

(***************************************************************************)
(* Sample data.  A data record holds, slot by slot, 2 bytes per sample.    *)
(* readSignal returns physical values: the 16-bit sample scaled by the     *)
(* signal's physical and digital range, kept here as an exact fraction     *)
(* <<numerator, denominator>>.                                             *)
(***************************************************************************)
SlotSamples(file, j) == PyInt(SlotFieldBytes(file, j, "num_samples"))

RECURSIVE SumTo(_, _)
SumTo(f, n) == IF n = 0 THEN 0 ELSE f[n] + SumTo(f, n - 1)

\* bytes of the samples of one data record of slots 0..j-1
SlotOffset(file, j) == SumTo([x \in 1..j |-> 2 * SlotSamples(file, x - 1)], j)

RecordBytes(file) == SlotOffset(file, SlotCount(file))

DataStart(file) == PyInt(HeaderFieldBytes(file, "header_bytes"))

\* the 16-bit value of a sample stored low byte first; a data byte is written
\* here as the digit of its value
Digital(lo, hi) == DigitVal(lo) + 256 * DigitVal(hi)

Physical(d, sh) ==
    <<sh.physical_min * (sh.digital_max - sh.digital_min)
          + (d - sh.digital_min) * (sh.physical_max - sh.physical_min),
      sh.digital_max - sh.digital_min>>

\* EdfReader.readSignal(i), i 1-based among the ordinary signals
readSignal(file, i) ==
    LET j == OrdinarySlots(file)[i]
        sh == getSignalHeaders(file)[i]
        n == SlotSamples(file, j)
        records == PyInt(HeaderFieldBytes(file, "num_data_records"))
    IN  [x \in 1..(records * n) |->
            LET r == (x - 1) \div n
                k == (x - 1) % n
                at == DataStart(file) + r * RecordBytes(file) + SlotOffset(file, j) + 2 * k
            IN  Physical(Digital(file[at + 1], file[at + 2]), sh)]

readSignals(file) == [i \in 1..Len(OrdinarySlots(file)) |-> readSignal(file, i)]

\* numpy's element-wise ==, then all(): every sample equal
AllSamplesEqual(a, b) ==
    /\ Len(a) = Len(b)
    /\ \A x \in 1..Len(a) : a[x][1] * b[x][2] = b[x][1] * a[x][2]

(***************************************************************************)
(* update_edf_header_inplace, one step per file operation.                 *)
(***************************************************************************)
None == [none |-> TRUE, v |-> <<>>]
Some(v) == [none |-> FALSE, v |-> v]

\* variant: a None entry is written as well, as an empty value
ApplyDict_nulls(orig, updates) ==
    [f \in DOMAIN orig \cup DOMAIN updates |->
        IF f \in DOMAIN updates THEN updates[f].v ELSE orig[f]]

\* lines 41-44 and 54-57: a copy of the dict with every non-None value of
\* the updates written over it
ApplyDict(orig, updates) ==
    [f \in DOMAIN orig \cup DOMAIN updates |->
        IF f \in DOMAIN updates /\ ~updates[f].none THEN updates[f].v ELSE orig[f]]

\* variant: the file opened for appending, where every write goes to the end
WriteAt_appending(file, offset, data) == file \o data

\* a file with data written at a byte offset, as seek(offset); write(data)
WriteAt(file, offset, data) ==
    [b \in 1..(IF Len(file) >= offset + Len(data) THEN Len(file) ELSE offset + Len(data)) |->
        IF b > offset /\ b <= offset + Len(data) THEN data[b - offset] ELSE file[b]]

\* read(length) at a byte offset: at most length bytes, fewer at the end
ReadAt(file, offset, length) ==
    SubSeq(file, offset + 1, IF offset + length <= Len(file) THEN offset + length ELSE Len(file))

\* variant: the source is read from its start, not from the offset
copy_bytes_unseeked(src, dest, offset, length) == WriteAt(dest, offset, ReadAt(src, 0, length))

\* copy_bytes: the destination file after the copy
copy_bytes(src, dest, offset, length) == WriteAt(dest, offset, ReadAt(src, offset, length))

\* variant: the record count is not restored
copy_overwrite_fields_three == <<"header_bytes", "num_signals", "data_record_duration">>

copy_overwrite_fields == <<"header_bytes", "num_signals", "num_data_records", "data_record_duration">>

\* EdfReader opens continuous files only
Readable(file) == SubSeq(HeaderFieldBytes(file, "reserved"), 1, 5) = <<"E", "D", "F", "+", "C">>

\* the zero-record file EdfWriter leaves at close: the given header, and the
\* given signal headers or else the writer's defaults
ScratchFile(header, n_signals, signals_given, signal_headers) ==
    WriteMainHeader(header, n_signals, 0, 1)
        \o WriteSignalHeaders(IF signals_given THEN signal_headers
                              ELSE [j \in 1..n_signals |-> DefaultSignalHeader(j)], 1)

\* lines 33-38
ReadOriginal ==
    /\ call.pc = "read"
    /\ IF ~Readable(fs.target)
       THEN call' = [call EXCEPT !.pc = "raised", !.error = "OSError"]
       ELSE call' = [call EXCEPT !.pc = "apply",
                                 !.orig_header = getHeader(fs.target),
                                 !.orig_signal_headers = getSignalHeaders(fs.target),
                                 !.orig_signals = IF call.confirm_signals_unchanged
                                                  THEN readSignals(fs.target) ELSE <<>>]
    /\ UNCHANGED <<parser, given, clean, fs, hist>>

\* variant: only a list that is too short is refused
LengthMismatch_shorter(given_list, signal_headers) == Len(given_list) < Len(signal_headers)

\* line 48
LengthMismatch(given_list, signal_headers) == Len(given_list) # Len(signal_headers)

\* lines 41-57
ApplyUpdates ==
    /\ call.pc = "apply"
    /\ LET updated_header == ApplyDict(call.orig_header, call.header_updates)
           given_list == call.signal_header_updates
       IN  IF given_list.none
           THEN call' = [call EXCEPT !.pc = "write", !.updated_header = updated_header]
           ELSE IF LengthMismatch(given_list.v, call.orig_signal_headers)
           THEN call' = [call EXCEPT !.pc = "raised", !.error = "ValueError: length",
                                     !.updated_header = updated_header]
           ELSE call' = [call EXCEPT !.pc = "write", !.updated_header = updated_header,
                                     !.updated_signal_headers =
                                         [i \in 1..Len(call.orig_signal_headers) |->
                                             ApplyDict(call.orig_signal_headers[i], given_list.v[i])]]
    /\ UNCHANGED <<parser, given, clean, fs, hist>>

\* variant: the writer adds to a file it finds at the scratch path
WriteScratch_adding ==
    /\ call.pc = "write"
    /\ fs' = [fs EXCEPT !.scratch_exists = TRUE,
                        !.scratch = fs.scratch \o ScratchFile(call.updated_header,
                                                              Len(call.orig_signal_headers),
                                                              ~call.signal_header_updates.none,
                                                              call.updated_signal_headers)]
    /\ call' = [call EXCEPT !.pc = "restore", !.k = 1]
    /\ hist' = [hist EXCEPT !.scratch_written = TRUE]
    /\ UNCHANGED <<parser, given, clean>>

\* variant: the scratch path is the path of the file itself
WriteScratch_inplace ==
    /\ call.pc = "write"
    /\ LET written == ScratchFile(call.updated_header, Len(call.orig_signal_headers),
                                  ~call.signal_header_updates.none,
                                  call.updated_signal_headers)
       IN  fs' = [fs EXCEPT !.scratch_exists = TRUE, !.scratch = written, !.target = written]
    /\ call' = [call EXCEPT !.pc = "restore", !.k = 1]
    /\ hist' = [hist EXCEPT !.scratch_written = TRUE]
    /\ UNCHANGED <<parser, given, clean>>

\* lines 60-67: the writer creates (or replaces) the scratch file
WriteScratch ==
    /\ call.pc = "write"
    /\ fs' = [fs EXCEPT !.scratch_exists = TRUE,
                        !.scratch = ScratchFile(call.updated_header, Len(call.orig_signal_headers),
                                                ~call.signal_header_updates.none,
                                                call.updated_signal_headers)]
    /\ call' = [call EXCEPT !.pc = "restore", !.k = 1]
    /\ hist' = [hist EXCEPT !.scratch_written = TRUE]
    /\ UNCHANGED <<parser, given, clean>>

\* line 61: the writer cannot open the scratch path
WriteScratchFails ==
    /\ call.pc = "write"
    /\ call' = [call EXCEPT !.pc = "raised", !.error = "EncodingError"]
    /\ UNCHANGED <<parser, given, clean, fs, hist>>

\* variant: the copy_bytes arguments exchanged, scratch into original
RestoreField_exchanged ==
    /\ call.pc = "restore"
    /\ LET field == copy_overwrite_fields[call.k]
       IN  fs' = [fs EXCEPT !.target = copy_bytes(fs.scratch, fs.target,
                                                  EDF_HEADER_FIELD_OFFSETS_LENGTHS[field][1],
                                                  EDF_HEADER_FIELD_OFFSETS_LENGTHS[field][2])]
    /\ call' = [call EXCEPT !.k = call.k + 1,
                            !.pc = IF call.k = Len(copy_overwrite_fields) THEN "copy" ELSE "restore"]
    /\ UNCHANGED <<parser, given, clean, hist>>

\* lines 75-77: one copy_bytes from the original into the scratch file
RestoreField ==
    /\ call.pc = "restore"
    /\ LET field == copy_overwrite_fields[call.k]
       IN  fs' = [fs EXCEPT !.scratch = copy_bytes(fs.target, fs.scratch,
                                                   EDF_HEADER_FIELD_OFFSETS_LENGTHS[field][1],
                                                   EDF_HEADER_FIELD_OFFSETS_LENGTHS[field][2])]
    /\ call' = [call EXCEPT !.k = call.k + 1,
                            !.pc = IF call.k = Len(copy_overwrite_fields) THEN "copy" ELSE "restore"]
    /\ UNCHANGED <<parser, given, clean, hist>>

\* lines 349-354: an I/O error in a copy_bytes
RestoreFails ==
    /\ call.pc = "restore"
    /\ call' = [call EXCEPT !.pc = "raised", !.error = "OSError"]
    /\ UNCHANGED <<parser, given, clean, fs, hist>>

\* variant: the copy stops where the recording identification starts
n_copy_bytes_patient(signals_given, n_signals) == EDF_HEADER_FIELD_OFFSETS_LENGTHS["recording_id"][1]

\* lines 81-83
n_copy_bytes(signals_given, n_signals) ==
    IF signals_given THEN TOTAL_HEADER_BYTES + n_signals * SIGNAL_HEADER_BYTES
    ELSE TOTAL_HEADER_BYTES

\* lines 80-86: the in-place copy into the target
CopyBack ==
    /\ call.pc = "copy"
    /\ LET n == n_copy_bytes(~call.signal_header_updates.none, Len(call.orig_signal_headers))
           updated_header_bytes == ReadAt(fs.scratch, 0, n)
       IN  fs' = [fs EXCEPT !.target = WriteAt(fs.target, 0, updated_header_bytes)]
    /\ call' = [call EXCEPT !.pc = IF call.confirm_signals_unchanged THEN "confirm" ELSE "remove"]
    /\ hist' = [hist EXCEPT !.target_writes = hist.target_writes + 1]
    /\ UNCHANGED <<parser, given, clean>>

\* variant: only the numbers of samples are compared
SignalChanged_lengths(target, orig_signals) ==
    \E i \in 1..Len(OrdinarySlots(target)) : Len(readSignal(target, i)) # Len(orig_signals[i])

\* lines 90-93: some signal of the target differs from the one read first
SignalChanged(target, orig_signals) ==
    \E i \in 1..Len(OrdinarySlots(target)) : ~AllSamplesEqual(readSignal(target, i), orig_signals[i])

\* lines 88-93
ConfirmSignals ==
    /\ call.pc = "confirm"
    /\ IF SignalChanged(fs.target, call.orig_signals)
       THEN call' = [call EXCEPT !.pc = "raised", !.error = "ValueError: signal changed"]
       ELSE call' = [call EXCEPT !.pc = "remove"]
    /\ UNCHANGED <<parser, given, clean, fs, hist>>

\* line 95
RemoveScratch ==
    /\ call.pc = "remove"
    /\ fs' = [fs EXCEPT !.scratch_exists = FALSE, !.scratch = <<>>]
    /\ call' = [call EXCEPT !.pc = "returned"]
    /\ UNCHANGED <<parser, given, clean, hist>>

update_edf_header_inplace ==
    \/ ReadOriginal
    \/ ApplyUpdates
    \/ WriteScratch
    \/ WriteScratchFails
    \/ RestoreField
    \/ RestoreFails
    \/ CopyBack
    \/ ConfirmSignals
    \/ RemoveScratch

(***************************************************************************)
(* The calls of clean_header: a header dict with every key of a header     *)
(* read from a file, in which technician, patientname and startdate vary   *)
(* (missing, of the wrong type, short, or one character longer than the    *)
(* longest main-header field), with and without raise_errors.              *)
(***************************************************************************)
LongStr == [k \in 1..(EDF_HEADER_FIELD_OFFSETS_LENGTHS["patient_id"][2] + 1) |-> "N"]

Missing == [type |-> "missing", s |-> <<>>]

HeaderKeys == {str_fields[k] : k \in 1..Len(str_fields)} \cup {"startdate"}

HeaderDict(technician, patientname, startdate) ==
    LET all == [f \in HeaderKeys |->
                   CASE f = "technician" -> technician
                     [] f = "patientname" -> patientname
                     [] f = "startdate" -> startdate
                     [] OTHER -> Str(<<>>)]
    IN  [f \in {g \in HeaderKeys : all[g] # Missing} |-> all[f]]

CleanInputs ==
    {[pc |-> "call", header |-> HeaderDict(t, n, d), raise_errors |-> r,
      outcome |-> "none", result |-> HeaderDict(t, n, d)] :
        <<t, n, d, r>> \in {Missing, NotAStr, Str(<<>>), Str(<<"T">>), Str(LongStr)}
                           \X {Str(<<>>), Str(<<"N">>), Str(LongStr)}
                           \X {ADate, NotAStr, Missing}
                           \X BOOLEAN}

CleanIdle == [pc |-> "idle", header |-> <<>>, raise_errors |-> FALSE, outcome |-> "none", result |-> <<>>]

ParserIdle == [ParserAt(<<>>) EXCEPT !.pc = "idle"]

GivenIdle == [serialized |-> FALSE, triples |-> <<>>, timekeeping |-> FALSE, tal |-> None, record |-> <<>>]


(***************************************************************************)
(* The calls of update_edf_header_inplace.  The target is a file as the    *)
(* writer produces it (tests/generate_edf.py), of 1..MaxSignals ordinary   *)
(* signals and NumRecords data records, marked EDF+C or, as the            *)
(* discontinuous test files are, EDF+D; a scratch file of an earlier call  *)
(* may be lying at the scratch path.                                       *)
(***************************************************************************)
MaxSignals == 2
NumRecords == 2
RecordDuration == 2

OriginalHeader(name) ==
    [patientcode |-> <<>>, sex |-> <<"M", "a", "l", "e">>, birthdate |-> <<>>,
     patientname |-> name, patient_additional |-> <<>>, admincode |-> <<>>,
     technician |-> <<"T", "1">>, equipment |-> <<>>, recording_additional |-> <<>>,
     startdate |-> <<"0", "1">>]

OriginalSignalHeaders(n) ==
    [j \in 1..n |->
        [label |-> <<"S">> \o NatStr(j), transducer |-> <<>>, dimension |-> <<"u", "V">>,
         physical_min |-> 0 - 2, physical_max |-> 2, digital_min |-> 0 - 4, digital_max |-> 4,
         prefilter |-> <<"L", "P">>, sample_frequency |-> 1]]

\* the data records: per record, the samples of every ordinary signal (low
\* byte, high byte), then the annotation signal's time-keeping TAL
OriginalData(n) ==
    Concat([r \in 1..NumRecords |->
        Concat([j \in 1..n |->
            Concat([k \in 1..RecordDuration |-> <<Digits[1 + ((r + j + k) % 4)], "0">>])])
        \o Padded(<<"+">> \o NatStr((r - 1) * RecordDuration) \o <<TXT, TXT, NUL>>, 2 * AnnotationSamples)])

OriginalFile(n, marker, name) ==
    LET continuous == WriteMainHeader(OriginalHeader(name), n, NumRecords, RecordDuration)
                          \o WriteSignalHeaders(OriginalSignalHeaders(n), RecordDuration)
                          \o OriginalData(n)
    IN  IF marker = "D"
        THEN WriteAt(continuous, EDF_HEADER_FIELD_OFFSETS_LENGTHS["reserved"][1],
                     <<"E", "D", "F", "+", "D", " ", " ", " ">>)
        ELSE continuous

HeaderUpdates(n, name) ==
    {[patientname |-> a, equipment |-> b, startdate |-> c] :
        <<a, b, c>> \in {None, Some(<<>>), Some(<<"R", "1">>)}
                        \X {None, Some(<<"E", "Q">>)}
                        \X {None, Some(<<"0", "2">>)}}
    \cup {[f \in DOMAIN OriginalHeader(name) |-> Some(getHeader(OriginalFile(n, "C", name))[f])]}

EmptyDict == [f \in {} |-> None]

SameAs(dict) == [f \in DOMAIN dict |-> Some(dict[f])]

SignalHeaderUpdates(n) ==
    {None,
     Some([i \in 1..(n - 1) |-> EmptyDict]),
     Some([i \in 1..(n + 1) |-> EmptyDict]),
     Some([i \in 1..n |-> EmptyDict]),
     Some([i \in 1..n |-> [label |-> Some(<<"L">> \o NatStr(i))]]),
     Some([i \in 1..n |-> [prefilter |-> Some(<<"H", "P">>), label |-> None]]),
     Some([i \in 1..n |-> [physical_max |-> Some(3)]]),
     Some([i \in 1..n |-> SameAs(getSignalHeaders(OriginalFile(n, "C", <<>>))[i])])}

StaleScratch == <<"s", "t", "a", "l", "e">>

CallAt(header_updates, signal_header_updates, confirm) ==
    [pc |-> "read", header_updates |-> header_updates,
     signal_header_updates |-> signal_header_updates,
     confirm_signals_unchanged |-> confirm,
     orig_header |-> <<>>, orig_signal_headers |-> <<>>, orig_signals |-> <<>>,
     updated_header |-> <<>>, updated_signal_headers |-> <<>>, k |-> 0, error |-> "none"]

CallIdle == [CallAt(EmptyDict, None, FALSE) EXCEPT !.pc = "idle"]
FsIdle == [target |-> <<>>, scratch_exists |-> FALSE, scratch |-> <<>>]
HistIdle == [orig |-> <<>>, target_writes |-> 0, scratch_written |-> FALSE]

Init ==
    /\ \E n \in 1..MaxSignals, marker \in {"C", "D"}, name \in {<<>>, <<"A", "B">>}, stale \in BOOLEAN :
          /\ fs = [target |-> OriginalFile(n, marker, name), scratch_exists |-> stale,
                   scratch |-> IF stale THEN StaleScratch ELSE <<>>]
          /\ \E hu \in HeaderUpdates(n, name), su \in SignalHeaderUpdates(n), confirm \in BOOLEAN :
                call = CallAt(hu, su, confirm)
    /\ hist = [orig |-> fs.target, target_writes |-> 0, scratch_written |-> FALSE]
    /\ parser = ParserIdle
    /\ given = GivenIdle
    /\ clean = CleanIdle

Next == update_edf_header_inplace

Spec == Init /\ [][Next]_vars

InitClean ==
    /\ clean \in CleanInputs
    /\ parser = ParserIdle
    /\ given = GivenIdle
    /\ fs = FsIdle
    /\ call = CallIdle
    /\ hist = HistIdle

NextClean == CleanHeader

SpecClean == InitClean /\ [][NextClean]_vars

(***************************************************************************)
(* The records the parser is run on: every byte sequence of up to          *)
(* MaxRawLen bytes over RawBytes, and the serialization of every sequence  *)
(* of up to MaxTriples well-formed triples that fits in RecordLen bytes.   *)
(***************************************************************************)
MaxRawLen == 4
MaxTriples == 2
RecordLen == 24

RawBytes == {"+", "1", ".", TXT, DUR, NUL}

SeqsUpTo(S, n) == UNION {[1..k -> S] : k \in 0..n}

TripleOnsets == {Number(FALSE, 5, 1), Number(FALSE, 1, 0)}
TripleDurations == {NoDuration, Number(FALSE, 2, 0)}
TripleTexts == {<<"A">>, <<"A", "B">>}
Triples == TripleOnsets \X TripleDurations \X TripleTexts

RawInputs ==
    {[serialized |-> FALSE, triples |-> <<>>, timekeeping |-> FALSE, tal |-> None, record |-> r] :
        r \in SeqsUpTo(RawBytes, MaxRawLen)}

SerializedInputs ==
    {[serialized |-> TRUE, triples |-> ts, timekeeping |-> tk, tal |-> None,
      record |-> Padded(SerializeTALs(ts, tk), RecordLen)] :
        <<ts, tk>> \in {x \in SeqsUpTo(Triples, MaxTriples) \X BOOLEAN :
                           Len(SerializeTALs(x[1], x[2])) <= RecordLen}}

\* the most text spans of one TAL
MaxSpans == 3

TalOnsets == TripleOnsets \cup {Number(TRUE, 5, 1)}
TalDurations == {None, Some(Number(FALSE, 2, 0)), Some(Number(FALSE, 5, 1))}
TalSpans == SeqsUpTo({<<>>, <<"A">>, <<"B", "C">>}, MaxSpans) \ {<<>>}

\* one TAL: the onset, the duration if any, every text span after its
\* delimiter, the terminating null byte
SingleTAL(onset, duration, spans) ==
    OnsetStr(onset)
        \o (IF duration.none THEN <<>> ELSE <<DUR>> \o UnsignedStr(duration.v))
        \o Concat([k \in 1..Len(spans) |-> <<TXT>> \o spans[k]])
        \o <<NUL>>

\* records holding one TAL of several text spans, then padding
TalInputs ==
    {[serialized |-> FALSE, triples |-> <<>>, timekeeping |-> FALSE,
      tal |-> Some([onset |-> o, duration |-> d, spans |-> sp]),
      record |-> Padded(SingleTAL(o, d, sp), RecordLen)] :
        <<o, d, sp>> \in TalOnsets \X TalDurations \X TalSpans}

InitTAL ==
    /\ given \in RawInputs \cup SerializedInputs \cup TalInputs
    /\ parser = ParserAt(given.record)
    /\ clean = CleanIdle
    /\ fs = FsIdle
    /\ call = CallIdle
    /\ hist = HistIdle

NextTAL == parse_edf_annotation_record

SpecTAL == InitTAL /\ [][NextTAL]_vars

(***************************************************************************)
(* get_annotation_signal_header_index and get_signal_header_fields.  The   *)
(* reader (pyedflib) opens plain EDF files, in which every signal counts,  *)
(* and continuous EDF+ files with at least one signal labelled exactly     *)
(* "EDF Annotations", which it leaves out of signals_in_file.              *)
(***************************************************************************)
\* str.lower() on the letters that occur in labels
Lower(chars) ==
    [k \in 1..Len(chars) |->
        CASE chars[k] = "E" -> "e" [] chars[k] = "D" -> "d" [] chars[k] = "F" -> "f"
          [] chars[k] = "A" -> "a" [] chars[k] = "S" -> "s" [] OTHER -> chars[k]]

IsPlainEdf(file) == Strip(HeaderFieldBytes(file, "reserved")) = <<>>

\* the slots (0-based) the reader takes for annotation signals
ReaderAnnotationSlots(file) ==
    IF IsPlainEdf(file) THEN {}
    ELSE {j \in 0..(SlotCount(file) - 1) : Strip(SlotFieldBytes(file, j, "label")) = AnnotationLabel}

\* pyedflib.EdfReader(edf_path) succeeds
ReaderOpens(file) == IsPlainEdf(file) \/ (Readable(file) /\ ReaderAnnotationSlots(file) # {})

\* reader.signals_in_file
signals_in_file(file) == SlotCount(file) - Cardinality(ReaderAnnotationSlots(file))

\* format_field_from_bytes: int, str, or the bytes themselves
format_field_from_bytes(bytes, field_type) ==
    CASE field_type = "int" -> PyInt(bytes)
      [] field_type = "str" -> Strip(bytes)
      [] OTHER -> bytes

\* get_signal_header_fields of a file the reader opens: n_signals + 1 values,
\* read as if the region had n_signals + 1 slots
get_signal_header_fields(file, field) ==
    LET n_signals == signals_in_file(file)
        field_offset == EDF_SIGNAL_HEADER_FIELD_OFFSETS_LENGTHS[field][1]
        field_bytes_length == EDF_SIGNAL_HEADER_FIELD_OFFSETS_LENGTHS[field][2]
        field_type == EDF_SIGNAL_HEADER_FIELD_OFFSETS_LENGTHS[field][3]
    IN  [i \in 1..(n_signals + 1) |->
            format_field_from_bytes(
                ReadAt(file, TOTAL_HEADER_BYTES + (n_signals + 1) * field_offset
                                 + (i - 1) * field_bytes_length, field_bytes_length),
                field_type)]

\* line 243
IsAnnotationLabel(label) == Lower(label) = Lower(AnnotationLabel)

\* line 241, and the reader's refusal inside get_signal_header_fields
LocateLabels ==
    /\ call.pc = "labels"
    /\ IF ReaderOpens(fs.target)
       THEN call' = [call EXCEPT !.pc = "scan", !.i = 0,
                                 !.labels = get_signal_header_fields(fs.target, "label")]
       ELSE call' = [call EXCEPT !.pc = "raised", !.error = "OSError"]
    /\ UNCHANGED <<parser, given, clean, fs, hist>>

\* lines 242-245: one turn of the loop over the labels
LocateScan ==
    /\ call.pc = "scan"
    /\ IF call.i >= Len(call.labels)
       THEN call' = [call EXCEPT !.pc = "raised", !.error = "ValueError: no annotation signal"]
       ELSE IF IsAnnotationLabel(call.labels[call.i + 1])
       THEN call' = [call EXCEPT !.pc = "returned", !.result = call.i]
       ELSE call' = [call EXCEPT !.i = call.i + 1]
    /\ UNCHANGED <<parser, given, clean, fs, hist>>

get_annotation_signal_header_index == LocateLabels \/ LocateScan

\* the most signal-header slots of a file the index is looked up in
MaxSlots == 3

SlotLabels == {<<"S", "1">>, AnnotationLabel, Lower(AnnotationLabel)}

\* a file without data records whose slots have the given labels, the first
\* slot the given transducer type; plain EDF or EDF+C
LabelledFile(labels, transducer, plus) ==
    MainHeaderBytes(
        [version |-> <<"0">>, patient_id |-> <<"X">>, recording_id |-> <<"X">>,
         startdate |-> StartdateField(<<"0", "1">>), starttime |-> StarttimeField,
         header_bytes |-> IntStr(TOTAL_HEADER_BYTES + SIGNAL_HEADER_BYTES * Len(labels)),
         reserved |-> IF plus THEN <<"E", "D", "F", "+", "C">> ELSE <<>>,
         num_data_records |-> IntStr(0),
         data_record_duration |-> IntStr(1),
         num_signals |-> IntStr(Len(labels))])
    \o Concat([k \in 1..Len(SignalFieldOrder) |->
           Concat([j \in 1..Len(labels) |->
               Pad([AnnotationSlot EXCEPT !.label = labels[j],
                                          !.transducer_type = IF j = 1 THEN transducer ELSE <<>>]
                       [SignalFieldOrder[k]],
                   EDF_SIGNAL_HEADER_FIELD_OFFSETS_LENGTHS[SignalFieldOrder[k]][2])])])

LocateAt == [pc |-> "labels", labels |-> <<>>, i |-> 0, result |-> 0, error |-> "none"]

InitLocate ==
    /\ \E n \in 1..MaxSlots, plus \in BOOLEAN, transducer \in {<<>>, AnnotationLabel} :
          \E labels \in [1..n -> SlotLabels] :
              fs = [target |-> LabelledFile(labels, transducer, plus),
                    scratch_exists |-> FALSE, scratch |-> <<>>]
    /\ call = LocateAt
    /\ hist = [orig |-> fs.target, target_writes |-> 0, scratch_written |-> FALSE]
    /\ parser = ParserIdle
    /\ given = GivenIdle
    /\ clean = CleanIdle

NextLocate == get_annotation_signal_header_index

SpecLocate == InitLocate /\ [][NextLocate]_vars

(***************************************************************************)
(* The geometry of the annotation slices, as update_edf_annotations_inplace *)
(* computes it, and the annotation blanker.  clear_edf_annotations_inplace *)
(* is imported by the tests but is not in modify_edf_inplace.py; it is     *)
(* modelled after its description: in every data record, find the two      *)
(* consecutive text delimiters that end the time-keeping TAL and write     *)
(* null bytes over everything after them; fail where they are missing or   *)
(* come too early.                                                         *)
(***************************************************************************)
\* line 131: the index the lookup returns, on a file that has the label
ann_signal_index(file) ==
    LET labels == get_signal_header_fields(file, "label")
        hits == {i \in 0..(Len(labels) - 1) : IsAnnotationLabel(labels[i + 1])}
    IN  CHOOSE i \in hits : \A j \in hits : i <= j

\* lines 132-134: 2 bytes per sample
signal_record_lengths(file) ==
    LET num_samples == get_signal_header_fields(file, "num_samples")
    IN  [i \in 1..Len(num_samples) |-> 2 * num_samples[i]]

ann_record_length(file) == signal_record_lengths(file)[ann_signal_index(file) + 1]

\* variant: the annotation signal's own length is counted in its offset
ann_record_offset_inclusive(file) == SumTo(signal_record_lengths(file), ann_signal_index(file) + 1)

ann_record_offset(file) == SumTo(signal_record_lengths(file), ann_signal_index(file))

total_records_length(file) ==
    SumTo(signal_record_lengths(file), Len(signal_record_lengths(file)))

\* line 147: the offset in the file of the annotation slice of record i
ann_record_position(file, i) ==
    TOTAL_HEADER_BYTES + SIGNAL_HEADER_BYTES * Len(signal_record_lengths(file))
        + total_records_length(file) * i + ann_record_offset(file)

\* line 148
ann_record_bytes(file, i) == ReadAt(file, ann_record_position(file, i), ann_record_length(file))

\* the least offset at which the two delimiters may start: a sign and one
\* digit come before them
MinBoundary == 2

\* variant: a single text delimiter is taken for the boundary
FindBoundary_single(slice) ==
    LET at == {p \in 0..(Len(slice) - 1) : At(slice, p) = TXT}
    IN  IF at = {} THEN Unset ELSE CHOOSE p \in at : \A q \in at : p <= q

\* the offset in the slice of the first two consecutive text delimiters, or
\* Unset
FindBoundary(slice) ==
    LET at == {p \in 0..(Len(slice) - 2) : At(slice, p) = TXT /\ At(slice, p + 1) = TXT}
    IN  IF at = {} THEN Unset ELSE CHOOSE p \in at : \A q \in at : p <= q

\* variant: the byte after the boundary is left as it is
BlankedTail_late(slice, boundary) == <<At(slice, boundary + 2)>> \o [k \in 1..(Len(slice) - boundary - 3) |-> NUL]

\* variant: as many null bytes as the slice is long
BlankedTail_whole(slice, boundary) == [k \in 1..Len(slice) |-> NUL]

\* the null bytes written after the boundary, up to the end of the slice
BlankedTail(slice, boundary) == [k \in 1..(Len(slice) - boundary - 2) |-> NUL]

BlankLocate ==
    /\ call.pc = "locate"
    /\ call' = [call EXCEPT !.pc = "record", !.i = 0]
    /\ UNCHANGED <<parser, given, clean, fs, hist>>

\* one data record: its slice blanked, or the format error
BlankRecord ==
    /\ call.pc = "record"
    /\ call.i < PyInt(HeaderFieldBytes(fs.target, "num_data_records"))
    /\ LET slice == ann_record_bytes(fs.target, call.i)
           boundary == FindBoundary(slice)
       IN  IF boundary = Unset \/ boundary < MinBoundary
           THEN /\ call' = [call EXCEPT !.pc = "raised", !.error = "FormatError"]
                /\ UNCHANGED <<fs, hist>>
           ELSE /\ fs' = [fs EXCEPT !.target =
                             WriteAt(fs.target, ann_record_position(fs.target, call.i) + boundary + 2,
                                     BlankedTail(slice, boundary))]
                /\ hist' = [hist EXCEPT !.target_writes = hist.target_writes + 1]
                /\ call' = [call EXCEPT !.i = call.i + 1]
    /\ UNCHANGED <<parser, given, clean>>

BlankReturn ==
    /\ call.pc = "record"
    /\ call.i >= PyInt(HeaderFieldBytes(fs.target, "num_data_records"))
    /\ call' = [call EXCEPT !.pc = "returned"]
    /\ UNCHANGED <<parser, given, clean, fs, hist>>

clear_edf_annotations_inplace == BlankLocate \/ BlankRecord \/ BlankReturn

\* lines 146-151: the slice of one record of the blanked file handed to the
\* parser
ReadBack ==
    /\ call.pc = "returned"
    /\ parser.pc = "idle"
    /\ \E i \in 0..(PyInt(HeaderFieldBytes(fs.target, "num_data_records")) - 1) :
          /\ parser' = ParserAt(ann_record_bytes(fs.target, i))
          /\ given' = [given EXCEPT !.record = ann_record_bytes(hist.orig, i)]
    /\ UNCHANGED <<clean, fs, call, hist>>

\* the data records of the files that are blanked
BlankRecords == 2

\* the samples per record of the annotation signal of these files
SliceSamples == 7

\* the bytes of an annotation slice
SliceLen == 2 * SliceSamples

\* annotation slices of record r (1-based): the time-keeping TAL alone, with
\* a second TAL, with a text of its own, with a duration; then slices
\* without the two delimiters or with them too early
GoodSlices(r) ==
    {Padded(<<"+">> \o NatStr(r - 1) \o <<TXT, TXT, NUL>>, SliceLen),
     Padded(<<"+">> \o NatStr(r - 1) \o <<TXT, TXT, NUL, "+", "1", TXT, "A", TXT, NUL>>, SliceLen),
     Padded(<<"+">> \o NatStr(r - 1) \o <<TXT, TXT, "A", TXT, NUL>>, SliceLen),
     Padded(<<"+">> \o NatStr(r - 1) \o <<DUR, "1", TXT, TXT, NUL, "+", "1", TXT, "A", TXT, NUL>>, SliceLen)}

BadSlices(r) ==
    {Padded(<<"+">> \o NatStr(r - 1) \o <<TXT, "A", TXT, NUL>>, SliceLen),
     Padded(<<"+", TXT, TXT, "A", TXT, NUL>>, SliceLen),
     Padded(<<>>, SliceLen)}

\* a continuous EDF+ file of n ordinary signals and the annotation signal,
\* with the given annotation slices, one per data record
AnnotatedFile(n, slices) ==
    WriteMainHeader(OriginalHeader(<<>>), n, Len(slices), RecordDuration)
    \o Concat([k \in 1..Len(SignalFieldOrder) |->
           Concat([j \in 1..(n + 1) |->
               Pad((IF j <= n THEN SlotFields(OriginalSignalHeaders(n)[j], RecordDuration)
                    ELSE [AnnotationSlot EXCEPT !.num_samples = IntStr(SliceSamples)])
                       [SignalFieldOrder[k]],
                   EDF_SIGNAL_HEADER_FIELD_OFFSETS_LENGTHS[SignalFieldOrder[k]][2])])])
    \o Concat([r \in 1..Len(slices) |->
           Concat([j \in 1..n |->
               Concat([k \in 1..RecordDuration |-> <<Digits[1 + ((r + j + k) % 4)], "0">>])])
           \o slices[r]])

BlankAt == [pc |-> "locate", i |-> 0, error |-> "none"]

InitBlank ==
    /\ \E n \in {1, 2} :
          \E slices \in [1..BlankRecords -> UNION {GoodSlices(r) \cup BadSlices(r) : r \in 1..BlankRecords}] :
              /\ \A r \in 1..BlankRecords : slices[r] \in GoodSlices(r) \cup BadSlices(r)
              /\ fs = [target |-> AnnotatedFile(n, slices), scratch_exists |-> FALSE, scratch |-> <<>>]
    /\ call = BlankAt
    /\ hist = [orig |-> fs.target, target_writes |-> 0, scratch_written |-> FALSE]
    /\ parser = ParserIdle
    /\ given = GivenIdle
    /\ clean = CleanIdle

NextBlank == clear_edf_annotations_inplace \/ ReadBack \/ parse_edf_annotation_record

SpecBlank == InitBlank /\ [][NextBlank]_vars

(***************************************************************************)
(* compare_eeg.py: the equality checks of two loaded files.  A header is a *)
(* dict of strings; the signals of a file are a two-dimensional array, one *)
(* row per signal, all rows of one length.                                 *)
(***************************************************************************)
\* variant: only the keys are compared
compare_pyedflib_headers_keys(header1, header2) == DOMAIN header1 = DOMAIN header2

\* lines 66-74: dict inequality
compare_pyedflib_headers(header1, header2) == ~(header1 # header2)

\* numpy's shape of the array of a file's signals
Shape(signals) == <<Len(signals), IF signals = <<>> THEN 0 ELSE Len(signals[1])>>

Min(a, b) == IF a <= b THEN a ELSE b

\* signals[:, :length]
Truncated(signals, length) == [j \in 1..Len(signals) |-> SubSeq(signals[j], 1, length)]

\* variant: arrays of different shapes are never equal
compare_pyedflib_signals_strict(signals1, signals2, match_initial_values_only) ==
    Shape(signals1) = Shape(signals2) /\ signals1 = signals2

\* lines 109-143
compare_pyedflib_signals(signals1, signals2, match_initial_values_only) ==
    IF Shape(signals1) # Shape(signals2)
    THEN IF match_initial_values_only
         THEN IF Len(signals1) # Len(signals2) THEN FALSE
              ELSE LET min_length == Min(Shape(signals1)[2], Shape(signals2)[2])
                   IN  Truncated(signals1, min_length) = Truncated(signals2, min_length)
         ELSE FALSE
    ELSE signals1 = signals2

\* is_all_X_with_spaces: the whole string matches \s*X[\sX]*
is_all_X_with_spaces(s) ==
    /\ \A k \in 1..Len(s) : s[k] \in {" ", "X"}
    /\ \E k \in 1..Len(s) : s[k] = "X"

\* line 43 of compare_edf_pyedflib
CompareHeaders ==
    /\ call.pc = "headers"
    /\ call' = [call EXCEPT !.pc = "signals",
                            !.headers_equal = compare_pyedflib_headers(call.header1, call.header2)]
    /\ UNCHANGED <<parser, given, clean, fs, hist>>

\* line 53 of compare_edf_pyedflib: the default match_initial_values_only
CompareSignals ==
    /\ call.pc = "signals"
    /\ call' = [call EXCEPT !.pc = "returned",
                            !.signals_equal = compare_pyedflib_signals(call.signals1, call.signals2, TRUE)]
    /\ UNCHANGED <<parser, given, clean, fs, hist>>

compare_edf_pyedflib == CompareHeaders \/ CompareSignals

\* the most signals and the most samples per signal of a compared file
MaxCompared == 2

HeaderValues == {<<>>, <<"X">>, <<"X", " ", "X">>, <<"A">>}

ComparedHeaders == [{"patientname", "technician"} -> HeaderValues]

ComparedSignals ==
    UNION {[1..n -> [1..length -> {0, 1}]] : <<n, length>> \in (1..MaxCompared) \X (1..MaxCompared)}

\* the first file's signals: flat ones of every shape
FlatSignals ==
    {[j \in 1..n |-> [x \in 1..length |-> 0]] : <<n, length>> \in (1..MaxCompared) \X (1..MaxCompared)}

\* two files with the same header and any signals against flat ones, or with
\* the same signals and any two headers
InitCompare ==
    /\ \E h1 \in ComparedHeaders, h2 \in ComparedHeaders :
          \E s1 \in FlatSignals \cup {<<<<0, 1>>>>}, s2 \in ComparedSignals :
              /\ \/ h1 = h2 /\ h1 = [f \in {"patientname", "technician"} |-> <<"A">>] /\ s1 \in FlatSignals
                 \/ s1 = s2 /\ s1 = <<<<0, 1>>>>
              /\ call = [pc |-> "headers", header1 |-> h1, header2 |-> h2,
                         signals1 |-> s1, signals2 |-> s2,
                         headers_equal |-> FALSE, signals_equal |-> FALSE]
    /\ fs = FsIdle
    /\ hist = HistIdle
    /\ parser = ParserIdle
    /\ given = GivenIdle
    /\ clean = CleanIdle

NextCompare == compare_edf_pyedflib

SpecCompare == InitCompare /\ [][NextCompare]_vars

(***************************************************************************)
(* overwrite_edfD_to_edfC (split_discontinuous_edf.py) and the reserved-   *)
(* field tests of load_eeg.py.  A file's data is continuous when its       *)
(* records form one segment: the onset of every time-keeping TAL is the    *)
(* onset of the record before plus the record duration.                    *)
(***************************************************************************)
RESERVED_FIELD_EDF_HEADER_BYTE_OFFSET == 192

\* get_edf_reserved_field
get_edf_reserved_field(file) ==
    ReadAt(file, RESERVED_FIELD_EDF_HEADER_BYTE_OFFSET, EDF_HEADER_FIELD_OFFSETS_LENGTHS["reserved"][2])

is_edfD(file) == SubSeq(get_edf_reserved_field(file), 1, 5) = <<"E", "D", "F", "+", "D">>

is_edfC(file) == SubSeq(get_edf_reserved_field(file), 1, 5) = <<"E", "D", "F", "+", "C">>

\* the onset of the time-keeping TAL of record i (0-based), in seconds
RecordOnset(file, i) ==
    LET slice == ann_record_bytes(file, i)
        ends == {p \in 1..Len(slice) : slice[p] \in {TXT, DUR, NUL}}
        stop == CHOOSE p \in ends : \A q \in ends : p <= q
    IN  PyInt(SubSeq(slice, 2, stop - 1))

\* the segments of a file, as the number of records that start one
Segments(file) ==
    LET n_records == PyInt(HeaderFieldBytes(file, "num_data_records"))
        duration == PyInt(HeaderFieldBytes(file, "data_record_duration"))
    IN  Cardinality({i \in 0..(n_records - 1) :
                        i = 0 \/ RecordOnset(file, i) # RecordOnset(file, i - 1) + duration})

\* is_edf_continuous
is_edf_continuous(file) == Segments(file) = 1

\* variant: discontinuous data is refused whatever the flag
OverwriteRefused_always(require_continuous_data, file) == ~is_edf_continuous(file)

\* line 293
OverwriteRefused(require_continuous_data, file) ==
    require_continuous_data /\ ~is_edf_continuous(file)

\* lines 293-295; is_edf_continuous validates the path first
OverwriteCheck ==
    /\ call.pc = "check"
    /\ IF call.require_continuous_data /\ ~call.edf_extension
       THEN call' = [call EXCEPT !.pc = "raised", !.error = "ValueError: extension"]
       ELSE IF OverwriteRefused(call.require_continuous_data, fs.target)
       THEN call' = [call EXCEPT !.pc = "raised", !.error = "ValueError: discontinuous"]
       ELSE call' = [call EXCEPT !.pc = "validate"]
    /\ UNCHANGED <<parser, given, clean, fs, hist>>

\* line 297: validate_edf_file_path on a file that exists
OverwriteValidate ==
    /\ call.pc = "validate"
    /\ IF call.edf_extension
       THEN call' = [call EXCEPT !.pc = "write"]
       ELSE call' = [call EXCEPT !.pc = "raised", !.error = "ValueError: extension"]
    /\ UNCHANGED <<parser, given, clean, fs, hist>>

\* lines 298-300
OverwriteWrite ==
    /\ call.pc = "write"
    /\ fs' = [fs EXCEPT !.target = WriteAt(fs.target, RESERVED_FIELD_EDF_HEADER_BYTE_OFFSET,
                                           <<"E", "D", "F", "+", "C", " ", " ", " ">>)]
    /\ hist' = [hist EXCEPT !.target_writes = hist.target_writes + 1]
    /\ call' = [call EXCEPT !.pc = "returned"]
    /\ UNCHANGED <<parser, given, clean>>

overwrite_edfD_to_edfC == OverwriteCheck \/ OverwriteValidate \/ OverwriteWrite

\* the slices of a file whose record i (1-based) starts at onsets[i]
OnsetSlices(onsets) ==
    [r \in 1..Len(onsets) |-> Padded(<<"+">> \o NatStr(onsets[r]) \o <<TXT, TXT, NUL>>, SliceLen)]

\* the onsets of BlankRecords records that follow one another, and of
\* records with a gap of gap seconds after the first
Onsets(gap) ==
    [r \in 1..BlankRecords |-> (r - 1) * RecordDuration + (IF r > 1 THEN gap ELSE 0)]

\* continuous EDF+C files, and EDF+D files continuous or with a gap; the
\* rest of the reserved field blank or not
MarkedFiles ==
    {WriteAt(AnnotatedFile(n, OnsetSlices(Onsets(gap))),
             RESERVED_FIELD_EDF_HEADER_BYTE_OFFSET, marker \o rest) :
        <<n, gap, marker, rest>> \in
            {x \in {1, 2} \X {0, 1, 2}
                   \X {<<"E", "D", "F", "+", "C">>, <<"E", "D", "F", "+", "D">>}
                   \X {<<" ", " ", " ">>, <<" ", " ", " ", "r", "s", "v">>} :
                x[2] = 0 \/ x[3] = <<"E", "D", "F", "+", "D">>}}

InitOverwrite ==
    /\ \E file \in MarkedFiles :
          fs = [target |-> file, scratch_exists |-> FALSE, scratch |-> <<>>]
    /\ \E require \in BOOLEAN, extension \in BOOLEAN :
          call = [pc |-> "check", require_continuous_data |-> require,
                  edf_extension |-> extension, error |-> "none"]
    /\ hist = [orig |-> fs.target, target_writes |-> 0, scratch_written |-> FALSE]
    /\ parser = ParserIdle
    /\ given = GivenIdle
    /\ clean = CleanIdle

NextOverwrite == overwrite_edfD_to_edfC

SpecOverwrite == InitOverwrite /\ [][NextOverwrite]_vars

(***************************************************************************)
(* update_edf_header_inplace applied again.  A first call runs on a file   *)
(* with nothing at the scratch path; when it has ended, the same call is   *)
(* made once more, either on the file as the first call left it, or on the *)
(* original file with a stale scratch file lying at the scratch path.      *)
(***************************************************************************)
\* the first call ended by itself, not by an I/O failure
EndedFirst ==
    /\ hist.mode = "first"
    /\ \/ call.pc = "returned"
       \/ call.pc = "raised" /\ call.error = "ValueError: signal changed"

\* the same call on the file the first call left
ApplyAgain ==
    /\ EndedFirst
    /\ call' = CallAt(call.header_updates, call.signal_header_updates, call.confirm_signals_unchanged)
    /\ hist' = [hist EXCEPT !.mode = "again", !.first = fs.target,
                            !.target_writes = 0, !.scratch_written = FALSE]
    /\ UNCHANGED <<parser, given, clean, fs>>

\* the same call on the original file, a stale scratch file at the scratch path
ApplyStale ==
    /\ EndedFirst
    /\ \E stale \in {StaleScratch, fs.target} :
          fs' = [target |-> hist.orig, scratch_exists |-> TRUE, scratch |-> stale]
    /\ call' = CallAt(call.header_updates, call.signal_header_updates, call.confirm_signals_unchanged)
    /\ hist' = [hist EXCEPT !.mode = "stale", !.first = fs.target,
                            !.target_writes = 0, !.scratch_written = FALSE]
    /\ UNCHANGED <<parser, given, clean>>

\* the calls that are made twice: every header update, with the signal
\* header updates that fit the file
RetrySignalHeaderUpdates(n) == {su \in SignalHeaderUpdates(n) : su.none \/ Len(su.v) = n}

InitRetry ==
    /\ \E n \in 1..MaxSignals :
          /\ fs = [target |-> OriginalFile(n, "C", <<"A", "B">>), scratch_exists |-> FALSE, scratch |-> <<>>]
          /\ \E hu \in HeaderUpdates(n, <<"A", "B">>), su \in RetrySignalHeaderUpdates(n),
                confirm \in BOOLEAN :
                call = CallAt(hu, su, confirm)
    /\ hist = [orig |-> fs.target, target_writes |-> 0, scratch_written |-> FALSE,
               mode |-> "first", first |-> <<>>]
    /\ parser = ParserIdle
    /\ given = GivenIdle
    /\ clean = CleanIdle

NextRetry == update_edf_header_inplace \/ ApplyAgain \/ ApplyStale

SpecRetry == InitRetry /\ [][NextRetry]_vars

(***************************************************************************)
(* Two calls of update_edf_header_inplace at once, on one file system: a   *)
(* map from paths to files.  A call works on its edf_path and on           *)
(* temp_path = edf_path + ".tmp"; its steps are those of the single call,  *)
(* and the steps of the two calls interleave in every order.               *)
(***************************************************************************)
\* line 60
TempPath(edf_path) == edf_path \o <<".tmp">>

NoFile == [exists |-> FALSE, content |-> <<>>]

FileOf(content) == [exists |-> TRUE, content |-> content]

\* EdfReader opens a file that is there, is marked continuous and whose
\* header agrees with its size
ReaderOpensFile(f) ==
    /\ f.exists
    /\ Len(f.content) >= TOTAL_HEADER_BYTES
    /\ Readable(f.content)
    /\ DataStart(f.content) = TOTAL_HEADER_BYTES + SIGNAL_HEADER_BYTES * SlotCount(f.content)
    /\ Len(f.content) >= DataStart(f.content)
    /\ Len(f.content) = DataStart(f.content)
                            + PyInt(HeaderFieldBytes(f.content, "num_data_records")) * RecordBytes(f.content)

\* lines 88-93, on a file that may have been replaced since it was read
ConfirmOutcome(target, orig_signals) ==
    LET count == Len(OrdinarySlots(target))
    IN  IF \E i \in 1..Min(count, Len(orig_signals)) :
               ~AllSamplesEqual(readSignal(target, i), orig_signals[i])
        THEN "ValueError: signal changed"
        ELSE IF count > Len(orig_signals) THEN "IndexError"
        ELSE "none"

Raised(c, error) == [c EXCEPT !.pc = "raised", !.error = error]

\* one step of a call c on the files: the call and the files after the
\* step, and the paths the step opened
UpdateStep(c, files) ==
    LET edf_path == c.path
        temp_path == TempPath(c.path)
        target == files[edf_path]
        scratch == files[temp_path]
        both == {edf_path, temp_path}
        Result(c2, files2, opened) == [call |-> c2, files |-> files2, opened |-> opened]
    IN  CASE c.pc = "read" ->
                IF ~ReaderOpensFile(target) THEN Result(Raised(c, "OSError"), files, {edf_path})
                ELSE Result([c EXCEPT !.pc = "apply",
                                      !.orig_header = getHeader(target.content),
                                      !.orig_signal_headers = getSignalHeaders(target.content),
                                      !.orig_signals = IF c.confirm_signals_unchanged
                                                       THEN readSignals(target.content) ELSE <<>>],
                            files, {edf_path})
          [] c.pc = "apply" ->
                LET updated_header == ApplyDict(c.orig_header, c.header_updates)
                    given_list == c.signal_header_updates
                IN  IF given_list.none
                    THEN Result([c EXCEPT !.pc = "write", !.updated_header = updated_header], files, {})
                    ELSE IF LengthMismatch(given_list.v, c.orig_signal_headers)
                    THEN Result([Raised(c, "ValueError: length") EXCEPT !.updated_header = updated_header],
                                files, {})
                    ELSE Result([c EXCEPT !.pc = "write", !.updated_header = updated_header,
                                          !.updated_signal_headers =
                                              [i \in 1..Len(c.orig_signal_headers) |->
                                                  ApplyDict(c.orig_signal_headers[i], given_list.v[i])]],
                                files, {})
          [] c.pc = "write" ->
                Result([c EXCEPT !.pc = "restore", !.k = 1],
                       [files EXCEPT ![temp_path] =
                           FileOf(ScratchFile(c.updated_header, Len(c.orig_signal_headers),
                                              ~c.signal_header_updates.none, c.updated_signal_headers))],
                       {temp_path})
          [] c.pc = "restore" ->
                IF ~target.exists THEN Result(Raised(c, "FileNotFoundError"), files, {edf_path})
                ELSE IF ~scratch.exists THEN Result(Raised(c, "FileNotFoundError"), files, both)
                ELSE LET field == copy_overwrite_fields[c.k]
                     IN  Result([c EXCEPT !.k = c.k + 1,
                                          !.pc = IF c.k = Len(copy_overwrite_fields)
                                                 THEN "copy" ELSE "restore"],
                                [files EXCEPT ![temp_path] =
                                    FileOf(copy_bytes(target.content, scratch.content,
                                                      EDF_HEADER_FIELD_OFFSETS_LENGTHS[field][1],
                                                      EDF_HEADER_FIELD_OFFSETS_LENGTHS[field][2]))],
                                both)
          [] c.pc = "copy" ->
                IF ~target.exists THEN Result(Raised(c, "FileNotFoundError"), files, {edf_path})
                ELSE IF ~scratch.exists THEN Result(Raised(c, "FileNotFoundError"), files, both)
                ELSE LET n == n_copy_bytes(~c.signal_header_updates.none, Len(c.orig_signal_headers))
                     IN  Result([c EXCEPT !.pc = IF c.confirm_signals_unchanged
                                                 THEN "confirm" ELSE "remove"],
                                [files EXCEPT ![edf_path] =
                                    FileOf(WriteAt(target.content, 0, ReadAt(scratch.content, 0, n)))],
                                both)
          [] c.pc = "confirm" ->
                IF ~ReaderOpensFile(target) THEN Result(Raised(c, "OSError"), files, {edf_path})
                ELSE LET outcome == ConfirmOutcome(target.content, c.orig_signals)
                     IN  Result(IF outcome = "none" THEN [c EXCEPT !.pc = "remove"]
                                ELSE Raised(c, outcome),
                                files, {edf_path})
          [] c.pc = "remove" ->
                IF ~scratch.exists THEN Result(Raised(c, "FileNotFoundError"), files, {temp_path})
                ELSE Result([c EXCEPT !.pc = "returned"],
                            [files EXCEPT ![temp_path] = NoFile], {temp_path})

Ended(c) == c.pc \in {"returned", "raised"}

\* the next step of one of the two calls
PairStep ==
    \E p \in DOMAIN call :
        /\ ~Ended(call[p])
        /\ LET step == UpdateStep(call[p], fs)
           IN  /\ call' = [call EXCEPT ![p] = step.call]
               /\ fs' = step.files
               /\ hist' = [hist EXCEPT !.opened[p] = hist.opened[p] \cup step.opened]
        /\ UNCHANGED <<parser, given, clean>>

\* the target paths of the two calls: two files side by side, or a file and
\* a file at its scratch path
PairPaths == {<<<<"a">>, <<"b">>>>, <<<<"a">>, <<"a", ".tmp">>>>}

AllPaths == UNION {{pp[1], pp[2], TempPath(pp[1]), TempPath(pp[2])} : pp \in PairPaths}

PairCall(edf_path, n, rename, relabel, confirm) ==
    [path |-> edf_path]
        @@ CallAt([patientname |-> IF rename THEN Some(<<"R", "1">>) ELSE None],
                  IF relabel THEN Some([i \in 1..n |-> [label |-> Some(<<"L">> \o NatStr(i))]]) ELSE None,
                  confirm)

InitPair ==
    /\ \E pp \in PairPaths, n \in 1..MaxSignals :
          /\ pp[2] = TempPath(pp[1]) => n = 1
          /\ fs = [path \in AllPaths |->
                      IF path = pp[1] THEN FileOf(OriginalFile(n, "C", <<"A", "B">>))
                      ELSE IF path = pp[2] THEN FileOf(OriginalFile(1, "C", <<>>))
                      ELSE NoFile]
          /\ \E rename \in BOOLEAN, relabel \in BOOLEAN, confirm \in BOOLEAN, other \in BOOLEAN :
                call = <<PairCall(pp[1], n, rename, relabel, confirm),
                         PairCall(pp[2], 1, other, ~other, other)>>
    /\ hist = [orig |-> fs, start |-> call, opened |-> [p \in 1..2 |-> {}]]
    /\ parser = ParserIdle
    /\ given = GivenIdle
    /\ clean = CleanIdle

NextPair == PairStep

SpecPair == InitPair /\ [][NextPair]_vars

(***************************************************************************)
(* parse_edf_annotation_record on two records that have the same bytes up  *)
(* to their first null byte and differ after it: the first is parsed, then *)
(* the other.                                                              *)
(***************************************************************************)
\* the most bytes before the first null byte
MaxPrefix == 4

PrefixBytes == {"+", "1", "A", DUR, TXT}

\* what follows the first null byte: nothing, padding, text, another TAL
Tails == {<<>>, <<NUL>>, <<"A", TXT>>, <<"+", "1", TXT, "A", TXT, NUL>>}

\* the call on the other record, once the first has returned
ParseOther ==
    /\ parser.pc = "done"
    /\ ~given.second
    /\ given' = [given EXCEPT !.second = TRUE, !.first = Returned(parser)]
    /\ parser' = ParserAt(given.other)
    /\ UNCHANGED <<clean, fs, call, hist>>

InitPadding ==
    /\ \E prefix \in SeqsUpTo(PrefixBytes, MaxPrefix), tail \in Tails, other \in Tails :
          /\ tail # other
          /\ given = [record |-> prefix \o <<NUL>> \o tail, other |-> prefix \o <<NUL>> \o other,
                      second |-> FALSE, first |-> <<>>]
    /\ parser = ParserAt(given.record)
    /\ clean = CleanIdle
    /\ fs = FsIdle
    /\ call = CallIdle
    /\ hist = HistIdle

NextPadding == parse_edf_annotation_record \/ ParseOther

SpecPadding == InitPadding /\ [][NextPadding]_vars

(***************************************************************************)
(* parse_edf_annotation_record on records with a malformed TAL: the        *)
(* serialization of up to MaxTriples well-formed triples, then a TAL       *)
(* without sign, with an onset that is no number, or without the text      *)
(* delimiter, then padding.                                                *)
(***************************************************************************)
MalformedTALs ==
    {<<"A", TXT, "B", TXT, NUL>>, <<"+", "A", TXT, "B", TXT, NUL>>, <<"+", "1", NUL>>}

MalformedInputs ==
    {[serialized |-> FALSE, triples |-> ts, timekeeping |-> tk, tal |-> None, malformed |-> bad,
      record |-> Padded(SerializeTALs(ts, tk) \o bad, RecordLen)] :
        <<ts, tk, bad>> \in {x \in SeqsUpTo(Triples, MaxTriples) \X BOOLEAN \X MalformedTALs :
                                Len(SerializeTALs(x[1], x[2])) + Len(x[3]) <= RecordLen}}

InitMalformed ==
    /\ given \in MalformedInputs
    /\ parser = ParserAt(given.record)
    /\ clean = CleanIdle
    /\ fs = FsIdle
    /\ call = CallIdle
    /\ hist = HistIdle

NextMalformed == parse_edf_annotation_record

SpecMalformed == InitMalformed /\ [][NextMalformed]_vars

(***************************************************************************)
(* update_edf_annotations_inplace: the scan over the annotation slices of  *)
(* a file.  The function locates the annotation signal, computes the slice *)
(* geometry from the samples per record of all signals, and reads and      *)
(* parses the slice of every data record; it writes nothing.               *)
(***************************************************************************)
\* lines 131-140: the annotation signal and the lengths, or the reader's
\* refusal
ScanLocate ==
    /\ call.pc = "locate"
    /\ IF ReaderOpens(fs.target)
       THEN call' = [call EXCEPT !.pc = "record", !.i = 0]
       ELSE call' = [call EXCEPT !.pc = "raised", !.error = "OSError"]
    /\ UNCHANGED <<parser, given, clean, fs, hist>>

\* lines 146-151: seek to the slice of record i, read it, hand it to the
\* parser
ScanRead ==
    /\ call.pc = "record"
    /\ call.i < PyInt(HeaderFieldBytes(fs.target, "num_data_records"))
    /\ call' = [call EXCEPT !.pc = "parse"]
    /\ parser' = ParserAt(ann_record_bytes(fs.target, call.i))
    /\ hist' = [hist EXCEPT !.slices = @ \cup {[r |-> call.i,
                                                start |-> ann_record_position(fs.target, call.i),
                                                length |-> Len(ann_record_bytes(fs.target, call.i))]}]
    /\ UNCHANGED <<given, clean, fs>>

\* lines 152-154: the parsed triples are printed; the next record
ScanParsed ==
    /\ call.pc = "parse"
    /\ parser.pc = "done"
    /\ call' = [call EXCEPT !.pc = "record", !.i = call.i + 1]
    /\ parser' = ParserIdle
    /\ UNCHANGED <<given, clean, fs, hist>>

\* line 146: the loop is over
ScanReturn ==
    /\ call.pc = "record"
    /\ call.i >= PyInt(HeaderFieldBytes(fs.target, "num_data_records"))
    /\ call' = [call EXCEPT !.pc = "returned"]
    /\ UNCHANGED <<parser, given, clean, fs, hist>>

update_edf_annotations_inplace == ScanLocate \/ ScanRead \/ ScanParsed \/ ScanReturn

\* the samples per record of the annotation signal of the scanned files
ScanSamples == {4, 5}

\* the annotation slice of record r (1-based): the time-keeping TAL, with a
\* duration and a text in every second record
ScanSlice(r, samples) ==
    Padded(<<"+">> \o NatStr(r - 1)
              \o (IF r % 2 = 0 THEN <<DUR, "1", TXT, "A", TXT, NUL>> ELSE <<TXT, TXT, NUL>>),
           2 * samples)

\* the slots of a file whose ordinary signals have the given sample
\* frequencies and whose annotation signal is slot a (0-based)
ScanSlots(freqs, a, samples) ==
    [j \in 1..(Len(freqs) + 1) |->
        IF j = a + 1
        THEN [AnnotationSlot EXCEPT !.num_samples = IntStr(samples)]
        ELSE LET k == IF j <= a THEN j ELSE j - 1
             IN  SlotFields([OriginalSignalHeaders(Len(freqs))[k] EXCEPT !.sample_frequency = freqs[k]],
                            RecordDuration)]

\* a continuous EDF+ file with these slots and NumRecords data records
ScanFile(freqs, a, samples) ==
    LET slots == ScanSlots(freqs, a, samples)
    IN  WriteMainHeader(OriginalHeader(<<>>), Len(freqs), NumRecords, RecordDuration)
        \o Concat([k \in 1..Len(SignalFieldOrder) |->
               Concat([j \in 1..Len(slots) |->
                   Pad(slots[j][SignalFieldOrder[k]],
                       EDF_SIGNAL_HEADER_FIELD_OFFSETS_LENGTHS[SignalFieldOrder[k]][2])])])
        \o Concat([r \in 1..NumRecords |->
               Concat([j \in 1..Len(slots) |->
                   IF j = a + 1
                   THEN ScanSlice(r, samples)
                   ELSE [b \in 1..(2 * PyInt(slots[j].num_samples)) |-> Digits[1 + ((r + j + b) % 4)]]])])

ScanAt == [pc |-> "locate", i |-> 0, error |-> "none"]

InitScan ==
    /\ \E n \in 1..MaxSignals :
          \E freqs \in [1..n -> {1, 2}], a \in 0..n, samples \in ScanSamples :
              fs = [target |-> ScanFile(freqs, a, samples), scratch_exists |-> FALSE, scratch |-> <<>>]
    /\ call = ScanAt
    /\ hist = [orig |-> fs.target, slices |-> {}]
    /\ parser = ParserIdle
    /\ given = GivenIdle
    /\ clean = CleanIdle

NextScan == update_edf_annotations_inplace \/ parse_edf_annotation_record

SpecScan == InitScan /\ [][NextScan]_vars

(***************************************************************************)
(* clean_subject_eeg.py: the subject pipeline.  The input directory maps   *)
(* file names to bytes; the output directory is the set of the names of    *)
(* the files written.  The operator's answers to the validation prompts    *)
(* are inputs.                                                             *)
(***************************************************************************)
\* filename.lower().endswith('.edf')
HasEdfExtension(filename) ==
    Len(filename) >= 4 /\ Lower(SubSeq(filename, Len(filename) - 3, Len(filename))) = <<".", "e", "d", "f">>

\* load_edf with pyedflib succeeds
LoadSucceeds(file) == Len(file) >= TOTAL_HEADER_BYTES /\ ReaderOpens(file)

\* lines 202-207 on a file with the extension: an EDF+D file is marked EDF+C
\* in place, whatever its data
convert_edfC_to_edfD(file) ==
    IF is_edfD(file) /\ ~OverwriteRefused(FALSE, file)
    THEN WriteAt(file, RESERVED_FIELD_EDF_HEADER_BYTE_OFFSET, <<"E", "D", "F", "+", "C", " ", " ", " ">>)
    ELSE file

\* lines 186-190: the name of the cleaned file
CleanFilename(filename, subject_code) ==
    SubSeq(filename, 1, Len(filename) - 4) \o <<"_">> \o subject_code \o <<".", "e", "d", "f">>

\* lines 216-223: the next directory entry; a file with the extension is
\* converted
SubjectConvert ==
    /\ call.pc = "list"
    /\ call.todo # <<>>
    /\ LET filename == Head(call.todo)
       IN  IF HasEdfExtension(filename)
           THEN /\ call' = [call EXCEPT !.pc = "load"]
                /\ IF call.convert_to_edfC
                   THEN fs' = [fs EXCEPT !.input[filename] = convert_edfC_to_edfD(@)]
                   ELSE fs' = fs
           ELSE /\ call' = [call EXCEPT !.todo = Tail(@)]
                /\ fs' = fs
    /\ UNCHANGED <<parser, given, clean, hist>>

\* lines 224-229: the metadata of the file, or the exception raised or
\* reported
SubjectLoad ==
    /\ call.pc = "load"
    /\ LET filename == Head(call.todo)
       IN  IF LoadSucceeds(fs.input[filename])
           THEN call' = [call EXCEPT !.pc = "list", !.todo = Tail(@), !.EDF_meta_data = Append(@, filename)]
           ELSE IF call.raise_errors
           THEN call' = [call EXCEPT !.pc = "raised", !.error = "OSError"]
           ELSE call' = [call EXCEPT !.pc = "list", !.todo = Tail(@)]
    /\ UNCHANGED <<parser, given, clean, fs, hist>>

\* lines 170-171: the validation, with the operator's answer, and the
\* earliest start time, which needs one file at least
SubjectValidate ==
    /\ call.pc = "list"
    /\ call.todo = <<>>
    /\ \E continue_input \in {"yes", "no"} :
          IF continue_input # "yes"
          THEN call' = [call EXCEPT !.pc = "raised", !.error = "RuntimeError: aborting"]
          ELSE IF call.EDF_meta_data = <<>>
          THEN call' = [call EXCEPT !.pc = "raised", !.error = "ValueError: min of nothing"]
          ELSE call' = [call EXCEPT !.pc = "clean", !.todo = call.EDF_meta_data]
    /\ UNCHANGED <<parser, given, clean, fs, hist>>

\* lines 174-190: one file loaded, de-identified and written under the
\* output path
SubjectClean ==
    /\ call.pc = "clean"
    /\ call.todo # <<>>
    /\ IF LoadSucceeds(fs.input[Head(call.todo)])
       THEN /\ fs' = [fs EXCEPT !.output = @ \cup {CleanFilename(Head(call.todo), call.subject_code)}]
            /\ call' = [call EXCEPT !.todo = Tail(@)]
       ELSE /\ fs' = fs
            /\ call' = [call EXCEPT !.pc = "raised", !.error = "OSError"]
    /\ UNCHANGED <<parser, given, clean, hist>>

\* lines 191-199
SubjectReturn ==
    /\ call.pc = "clean"
    /\ call.todo = <<>>
    /\ call' = [call EXCEPT !.pc = "returned"]
    /\ UNCHANGED <<parser, given, clean, fs, hist>>

clean_subject_edf_files ==
    SubjectConvert \/ SubjectLoad \/ SubjectValidate \/ SubjectClean \/ SubjectReturn

\* the files of the input directory: two recordings and a file without the
\* extension
InputNames == <<<<"a", ".", "e", "d", "f">>, <<"B", ".", "E", "D", "F">>, <<"c", ".", "t", "x", "t">>>>

\* a file with one ordinary signal, its second record gap seconds late
SubjectFile(gap, marker) ==
    WriteAt(AnnotatedFile(1, OnsetSlices(Onsets(gap))), RESERVED_FIELD_EDF_HEADER_BYTE_OFFSET,
            marker \o <<" ", " ", " ">>)

\* a continuous recording, EDF+D files with and without a gap, and a file
\* cut off inside its header
SubjectFiles ==
    {SubjectFile(0, <<"E", "D", "F", "+", "C">>), SubjectFile(0, <<"E", "D", "F", "+", "D">>),
     SubjectFile(1, <<"E", "D", "F", "+", "D">>),
     SubSeq(SubjectFile(0, <<"E", "D", "F", "+", "C">>), 1, 200)}

InitSubject ==
    /\ \E files \in SubjectFiles \X SubjectFiles \X SubjectFiles :
          /\ Len(files[1]) >= TOTAL_HEADER_BYTES
          /\ files[3] = SubjectFile(1, <<"E", "D", "F", "+", "D">>)
          /\ fs = [input |-> (InputNames[1] :> files[1]) @@ (InputNames[2] :> files[2])
                                  @@ (InputNames[3] :> files[3]),
                   output |-> {}]
    /\ \E order \in {<<1, 2, 3>>, <<3, 2, 1>>}, raise_errors \in BOOLEAN :
          call = [pc |-> "list", todo |-> [k \in 1..3 |-> InputNames[order[k]]],
                  EDF_meta_data |-> <<>>, subject_code |-> <<"R", "1">>,
                  convert_to_edfC |-> TRUE, raise_errors |-> raise_errors, error |-> "none"]
    /\ hist = [input |-> fs.input]
    /\ parser = ParserIdle
    /\ given = GivenIdle
    /\ clean = CleanIdle

NextSubject == clean_subject_edf_files

SpecSubject == InitSubject /\ [][NextSubject]_vars

(***************************************************************************)
(* Claims about update_edf_header_inplace.  hist.orig is the target file   *)
(* as it was when the call started.                                        *)
(***************************************************************************)

\* the number of ordinary signals of the file the call was given
NSignals == Len(getSignalHeaders(hist.orig))

\* the call passes, as updates, exactly what a reader returns for the file
NoOpCall ==
    /\ Readable(hist.orig)
    /\ call.header_updates = SameAs(getHeader(hist.orig))
    /\ call.signal_header_updates =
           Some([i \in 1..NSignals |-> SameAs(getSignalHeaders(hist.orig)[i])])

C2_DataUntouched ==
    /\ Len(fs.target) = Len(hist.orig)
    /\ \A b \in (DataStart(hist.orig) + 1)..Len(hist.orig) : fs.target[b] = hist.orig[b]

C2_SignalHeadersRewritten ==
    /\ call.pc = "returned"
    /\ ~call.signal_header_updates.none
    /\ getSignalHeaders(fs.target) # getSignalHeaders(hist.orig)
    /\ Len(hist.orig) > DataStart(hist.orig)

\* the main header of a full rewrite: the header read from the original with
\* the updates applied, encoded anew together with all the data records
Rewritten ==
    WriteMainHeader(ApplyDict(getHeader(hist.orig), call.header_updates),
                    NSignals, NumRecords, RecordDuration)

\* C3: equivalence to a full rewrite, main header -- after a call that
\* returned, every main-header field read back from the file equals the
\* field read back from a full rewrite of the original with the same updates.
C3_FullRewrite == call.pc = "returned" => getHeader(fs.target) = getHeader(Rewritten)

C3_HeaderRewritten == call.pc = "returned" /\ getHeader(fs.target) # getHeader(hist.orig)

\* C4 (as claimed): signal-header updates take effect completely -- after a
\* call that returned, every field given a non-null value in
\* signal_header_updates[i] reads back from signal i of the file as that
\* value, for any number of signals.
C4_SignalUpdatesApplied ==
    (call.pc = "returned" /\ ~call.signal_header_updates.none) =>
        \A i \in 1..NSignals : \A f \in DOMAIN call.signal_header_updates.v[i] :
            ~call.signal_header_updates.v[i][f].none =>
                getSignalHeaders(fs.target)[i][f] = call.signal_header_updates.v[i][f].v

\* C5: structural fields are preserved -- at every point of every call the
\* raw bytes of header_bytes, num_data_records, data_record_duration and
\* num_signals in the file are the bytes they were before the call.
C5_StructuralFields ==
    \A field \in {"header_bytes", "num_data_records", "data_record_duration", "num_signals"} :
        HeaderFieldBytes(fs.target, field) = HeaderFieldBytes(hist.orig, field)

\* the call returned, it changed the file, and the scratch file the writer
\* left had another record count than the file
C5_ScratchDiffered ==
    /\ call.pc = "returned"
    /\ fs.target # hist.orig
    /\ HeaderFieldBytes(ScratchFile(call.updated_header, NSignals, ~call.signal_header_updates.none,
                                    call.updated_signal_headers), "num_data_records")
           # HeaderFieldBytes(fs.target, "num_data_records")

\* the call has not reached the in-place copy, or was aborted before it
BeforeCopy ==
    \/ call.pc \in {"read", "apply", "write", "restore", "copy"}
    \/ call.pc = "raised" /\ call.error \in {"OSError", "ValueError: length", "EncodingError"}

\* C6: point of no return -- the file is written once, by the in-place copy:
\* until that copy, and after an abort at any step before it, the file is
\* byte-identical to the file before the call; from the copy on it has been
\* written exactly once.
C6_PointOfNoReturn ==
    IF BeforeCopy
    THEN fs.target = hist.orig /\ hist.target_writes = 0
    ELSE hist.target_writes = 1

\* the call was aborted while restoring the structural fields in the scratch
\* file the writer had already left
C6_AbortedInRestore == call.pc = "raised" /\ call.error = "OSError" /\ hist.scratch_written

\* a list of signal-header updates was given, of another length than the
\* file's number of signals
LengthsDiffer ==
    /\ ~call.signal_header_updates.none
    /\ Len(call.signal_header_updates.v) # NSignals

\* C7: a signal_header_updates list whose length differs from the signal
\* count of a file that can be read makes the call fail with the length
\* error, no scratch file written and the file untouched; the length error
\* is raised in no other case.
C7_LengthMismatch ==
    /\ call.error = "ValueError: length" =>
           /\ LengthsDiffer
           /\ call.pc = "raised"
           /\ ~hist.scratch_written
           /\ hist.target_writes = 0
           /\ fs.target = hist.orig
    /\ (Readable(hist.orig) /\ LengthsDiffer /\ call.pc \notin {"read", "apply"}) =>
           call.pc = "raised" /\ call.error = "ValueError: length"

C7_TooLong ==
    /\ call.error = "ValueError: length"
    /\ Len(call.signal_header_updates.v) > NSignals

\* some sample of some signal read from the file differs from the sample
\* read from the file as it was before the call
SamplesDiffer ==
    \E i \in 1..NSignals : ~AllSamplesEqual(readSignal(fs.target, i), readSignal(hist.orig, i))

\* C8: with confirm_signals_unchanged, the integrity error is raised exactly
\* when some sample of some signal re-read after the in-place copy differs
\* from the sample read at the start; on that error the file is left as the
\* copy made it, neither restored nor removed.
C8_ConfirmSignals ==
    /\ call.error = "ValueError: signal changed" =>
           /\ call.confirm_signals_unchanged
           /\ call.pc = "raised"
           /\ SamplesDiffer
           /\ hist.target_writes = 1
           /\ fs.target # hist.orig
           /\ fs.target = WriteAt(hist.orig, 0,
                  ReadAt(fs.scratch, 0, n_copy_bytes(~call.signal_header_updates.none, NSignals)))
    /\ (call.confirm_signals_unchanged /\ call.pc \in {"remove", "returned"}) => ~SamplesDiffer

C8_IntegrityError == call.pc = "raised" /\ call.error = "ValueError: signal changed"

\* C19: crash recoverability -- the content of the target changes in one step
\* only, the in-place copy, which starts from the original content and is the
\* first write to the target; at every other step boundary, before it or
\* after it (with the scratch file still there or already removed), the
\* target is left as it was, so it holds the original or the final content.
C19_CrashRecoverable ==
    [][IF call.pc = "copy"
       THEN /\ fs.target = hist.orig
            /\ hist.target_writes = 0
            /\ call'.pc \in {"confirm", "remove"}
       ELSE fs'.target = fs.target]_vars

\* the target was written, holds new content, and the scratch file is still
\* to be removed
C19_WrittenBeforeRemove ==
    /\ call.pc = "remove"
    /\ fs.scratch_exists
    /\ hist.target_writes = 1
    /\ fs.target # hist.orig

\* the pyedflib header keys that a main-header field is written from
WrittenFrom ==
    [version |-> {},
     patient_id |-> {"patientcode", "sex", "birthdate", "patientname", "patient_additional"},
     recording_id |-> {"startdate", "admincode", "technician", "equipment", "recording_additional"},
     startdate |-> {"startdate"},
     starttime |-> {"startdate"},
     reserved |-> {}]

\* a non-null entry of header_updates is written into the field
Touched(field) ==
    \E key \in WrittenFrom[field] \cap DOMAIN call.header_updates : ~call.header_updates[key].none

C23_WriteExtent ==
    call.pc \in {"confirm", "remove"} =>
        LET extent == IF call.signal_header_updates.none THEN TOTAL_HEADER_BYTES
                      ELSE PyInt(HeaderFieldBytes(hist.orig, "header_bytes"))
        IN  /\ Len(fs.target) = Len(hist.orig)
            /\ SubSeq(fs.target, 1, extent) = SubSeq(fs.scratch, 1, extent)
            /\ SubSeq(fs.target, extent + 1, Len(fs.target))
                   = SubSeq(hist.orig, extent + 1, Len(hist.orig))

\* C24 (as claimed): scratch-file lifecycle -- the scratch file is written
\* only after the original header was read, is deleted after the in-place
\* copy and before the signal confirmation runs, and does not exist once a
\* call that made the in-place copy has ended, by returning or by raising
\* the integrity error.
C24_ScratchLifecycle ==
    /\ hist.scratch_written => call.pc \notin {"read", "apply"}
    /\ call.pc = "confirm" => ~fs.scratch_exists
    /\ (hist.target_writes = 1 /\ call.pc \in {"returned", "raised"}) => ~fs.scratch_exists

\* C28: idempotent and retryable -- once the same call, made again on the
\* file the first call left, or made on the original file with a stale
\* scratch file at the scratch path, has made its in-place copy, the file is
\* byte for byte the file the first call left; and when such a call returns
\* it has made that copy and no scratch file is left.
C28_IdempotentRetryable ==
    /\ (hist.mode \in {"again", "stale"} /\ hist.target_writes = 1) => fs.target = hist.first
    /\ (hist.mode \in {"again", "stale"} /\ call.pc = "returned") =>
           /\ hist.target_writes = 1
           /\ ~fs.scratch_exists

\* a call that changed the file returned after it was made on the original
\* file over a stale scratch file
C28_RetriedOverStale ==
    /\ hist.mode = "stale"
    /\ call.pc = "returned"
    /\ hist.first # hist.orig
    /\ fs.target # hist.orig

(***************************************************************************)
(* Claims about the TAL codec                                              *)
(***************************************************************************)

\* C10 (as claimed): TAL round trip -- whenever the record is the
\* serialization of a well-formed sequence of triples that fits in the
\* record, a finished parse returns exactly those triples, in order.
C10_RoundTrip ==
    (parser.pc = "done" /\ given.serialized) => Returned(parser) = given.triples

\* the number of TALs of a serialized record
TalCount == Len(given.triples) + (IF given.timekeeping THEN 1 ELSE 0)

\* C11 (as claimed): multiple TALs per record -- when the record consists of
\* two or more consecutive well-formed TALs, each ended by a null byte (the
\* time-keeping TAL counted), a finished parse returns the triples of all
\* of them, in record order.
C11_MultipleTALs ==
    (parser.pc = "done" /\ given.serialized /\ TalCount >= 2) =>
        /\ Len(Returned(parser)) = Len(given.triples)
        /\ \A k \in 1..Len(given.triples) : Returned(parser)[k] = given.triples[k]

\* the triples of one TAL: one per non-empty span, in order, with the TAL's
\* onset and its duration, -1 where it states none
RECURSIVE TalTriples(_, _, _)
TalTriples(onset, duration, spans) ==
    IF spans = <<>> THEN <<>>
    ELSE (IF Head(spans) = <<>> THEN <<>>
          ELSE <<<<onset, IF duration.none THEN Number(TRUE, 1, 0) ELSE duration.v, Head(spans)>>>>)
         \o TalTriples(onset, duration, Tail(spans))

\* C12: triples of one TAL -- for a record holding a single well-formed TAL,
\* a finished parse returns exactly one triple per non-empty text span, in
\* order, each with the TAL's onset and duration (-1 without a duration);
\* empty spans give no triple.
C12_TalTriples ==
    (parser.pc = "done" /\ ~given.tal.none) =>
        Returned(parser) = TalTriples(given.tal.v.onset, given.tal.v.duration, given.tal.v.spans)

\* a finished parse of a TAL without duration that has an empty span between
\* two texts
C12_EmptySpanBetweenTexts ==
    /\ parser.pc = "done"
    /\ ~given.tal.none
    /\ given.tal.v.duration.none
    /\ given.tal.v.spans = <<<<"A">>, <<>>, <<"B", "C">>>>
    /\ Len(Returned(parser)) = 2

(***************************************************************************)
(* Claims about clean_header                                               *)
(***************************************************************************)

\* the header clean_header was given has every expected key with a value of
\* the expected type, so that only the lengths of its strings are at issue
CleanWellTyped ==
    /\ DOMAIN clean.header = HeaderKeys
    /\ \A k \in 1..Len(str_fields) : clean.header[str_fields[k]].type = "str"
    /\ clean.header["startdate"].type = "date"

\* the fixed byte length of the composite field a header string is stored in
\* (patient_id and recording_id have the same length)
SlotLength == EDF_HEADER_FIELD_OFFSETS_LENGTHS["patient_id"][2]

CleanOverflows == \E k \in 1..Len(str_fields) : Len(clean.header[str_fields[k]].s) > SlotLength

\* C9 (as claimed): string-overflow handling -- an over-long string is
\* truncated to a prefix of exactly the field's length without strictness and
\* is a validation error with strictness; strings that fit pass unchanged.
C9_OverflowHandling ==
    (clean.pc = "done" /\ CleanWellTyped) =>
        IF CleanOverflows /\ clean.raise_errors
        THEN clean.outcome = "ValueError"
        ELSE /\ clean.outcome = "ok"
             /\ DOMAIN clean.result = HeaderKeys
             /\ \A k \in 1..Len(str_fields) :
                    LET before == clean.header[str_fields[k]].s
                        after == clean.result[str_fields[k]].s
                    IN  IF Len(before) > SlotLength
                        THEN after = SubSeq(before, 1, SlotLength)
                        ELSE after = before

(***************************************************************************)
(* Claims about get_annotation_signal_header_index                         *)
(***************************************************************************)

\* the slots (0-based) of all the file's signals whose trimmed label is
\* "EDF Annotations" in any case
LabelledSlots ==
    {j \in 0..(SlotCount(hist.orig) - 1) :
        Lower(Strip(SlotFieldBytes(hist.orig, j, "label"))) = <<"e", "d", "f", " ", "a", "n", "n", "o", "t", "a", "t", "i", "o", "n", "s">>}

\* C16 (as claimed): on a file that can be read, the lookup returns the index
\* among all signal-header slots of the first signal whose trimmed label is
\* "EDF Annotations" ignoring case, and fails with the format error if and
\* only if no signal has that label.
C16_AnnotationIndex ==
    /\ call.pc = "returned" =>
           /\ call.result \in LabelledSlots
           /\ \A j \in LabelledSlots : call.result <= j
    /\ (call.pc = "raised" /\ call.error = "ValueError: no annotation signal") => LabelledSlots = {}
    /\ (call.pc \in {"returned", "raised"} /\ ReaderOpens(hist.orig) /\ LabelledSlots = {}) =>
           call.pc = "raised" /\ call.error = "ValueError: no annotation signal"

(***************************************************************************)
(* Claims about the annotation blanker.  The annotation signal is the last *)
(* slot of the file; its slice of data record r (0-based) is located here  *)
(* from the header fields alone.                                           *)
(***************************************************************************)
SliceStart(file, r) ==
    DataStart(file) + r * RecordBytes(file) + SlotOffset(file, SlotCount(file) - 1)

SliceOf(file, r) ==
    SubSeq(file, SliceStart(file, r) + 1,
           SliceStart(file, r) + 2 * SlotSamples(file, SlotCount(file) - 1))

RecordsOf(file) == 0..(PyInt(HeaderFieldBytes(file, "num_data_records")) - 1)

\* the offsets in a slice at which two consecutive text delimiters start
DelimiterPairs(slice) == {p \in 0..(Len(slice) - 2) : slice[p + 1] = TXT /\ slice[p + 2] = TXT}

\* the slice lacks the two delimiters, or has them before the least offset
Corrupt(slice) == \A p \in DelimiterPairs(slice) : \E q \in DelimiterPairs(slice) : q < p \/ q < MinBoundary

\* a slice is the blanked form of another: the same bytes up to and including
\* the first two consecutive delimiters, and only null bytes after them
BlankedFrom(after, before) ==
    /\ Len(after) = Len(before)
    /\ \E p \in DelimiterPairs(before) :
          /\ \A q \in DelimiterPairs(before) : p <= q
          /\ SubSeq(after, 1, p + 2) = SubSeq(before, 1, p + 2)
          /\ \A k \in (p + 3)..Len(after) : after[k] = NUL

\* C13: annotation blanking post-condition -- after the blanker returned, the
\* annotation slice of every data record is its original prefix up to and
\* including the two consecutive text delimiters that end the time-keeping
\* TAL, followed only by null bytes, and parsing any record yields no text.
C13_Blanked ==
    call.pc = "returned" =>
        /\ \A r \in RecordsOf(hist.orig) : BlankedFrom(SliceOf(fs.target, r), SliceOf(hist.orig, r))
        /\ parser.pc = "done" => Returned(parser) = <<>>

\* a record whose time-keeping TAL carried a text was blanked and parsed
C13_TextBlanked ==
    /\ call.pc = "returned"
    /\ parser.pc = "done"
    /\ \E p \in DelimiterPairs(given.record) : given.record[p + 3] = "A"
    /\ parser.content # given.record

\* C14: annotation blanking frame -- at every point of the blanker's run the
\* file has its original length, and every byte outside the annotation
\* slices (main header, signal headers, the samples of every other signal
\* in every data record) is the byte it was.
C14_BlankFrame ==
    LET data_start == DataStart(hist.orig)
        record_bytes == RecordBytes(hist.orig)
        slice_offset == SlotOffset(hist.orig, SlotCount(hist.orig) - 1)
    IN  /\ Len(fs.target) = Len(hist.orig)
        /\ \A b \in 1..Len(hist.orig) :
              (\/ b <= data_start
               \/ (b - 1 - data_start) % record_bytes < slice_offset)
                  => fs.target[b] = hist.orig[b]

\* every record of a file of two ordinary signals was changed by the
\* blanker
C14_AllBlanked ==
    /\ call.pc = "returned"
    /\ SlotCount(hist.orig) = 3
    /\ \A r \in RecordsOf(hist.orig) : SliceOf(fs.target, r) # SliceOf(hist.orig, r)

\* C15: annotation blanking rejects corrupt preambles -- the blanker fails
\* with the format error exactly at the first data record whose annotation
\* slice lacks the two-delimiter boundary or has it below the least offset,
\* and that record's bytes are not overwritten.
C15_CorruptPreamble ==
    /\ call.error = "FormatError" =>
           /\ call.pc = "raised"
           /\ Corrupt(SliceOf(hist.orig, call.i))
           /\ SliceOf(fs.target, call.i) = SliceOf(hist.orig, call.i)
    /\ call.pc \in {"record", "raised", "returned"} =>
           \A r \in RecordsOf(hist.orig) : r < call.i => ~Corrupt(SliceOf(hist.orig, r))

\* the error came at a later record, with an earlier record already blanked,
\* at a boundary that was present but too early
C15_TooEarly ==
    /\ call.error = "FormatError"
    /\ call.i >= 1
    /\ fs.target # hist.orig
    /\ DelimiterPairs(SliceOf(hist.orig, call.i)) # {}

(***************************************************************************)
(* Claims about the equality checks of compare_eeg.py                      *)
(***************************************************************************)

\* two header values agree, a value of only X characters and spaces being
\* taken for an empty string
SentinelEqual(a, b) ==
    \/ a = b
    \/ is_all_X_with_spaces(a) /\ b = <<>>
    \/ a = <<>> /\ is_all_X_with_spaces(b)

HeadersCompared == call.pc \in {"signals", "returned"}

\* C17 (as claimed): sentinel-aware header comparison -- the headers are
\* reported equal when they agree field by field, a string of only X
\* characters and spaces in one being equal to an empty string in the other,
\* and unequal on any other difference.
C17_SentinelAware ==
    HeadersCompared =>
        (call.headers_equal <=>
            /\ DOMAIN call.header1 = DOMAIN call.header2
            /\ \A f \in DOMAIN call.header1 : SentinelEqual(call.header1[f], call.header2[f]))

\* C17 (amended): the headers are reported equal exactly when they have the
\* same fields with the same values; a string of only X characters and
\* spaces is not equal to an empty string.
C17_ExactEquality ==
    HeadersCompared =>
        (call.headers_equal <=>
            /\ DOMAIN call.header1 = DOMAIN call.header2
            /\ \A f \in DOMAIN call.header1 : call.header1[f] = call.header2[f])

\* headers that differ only by a sentinel against an empty string were
\* reported unequal
C17_SentinelUnequal ==
    /\ HeadersCompared
    /\ ~call.headers_equal
    /\ call.header1["patientname"] = <<"X">>
    /\ call.header2["patientname"] = <<>>
    /\ call.header1["technician"] = call.header2["technician"]

\* C18 (as claimed): signal equality check -- the signals of two files are
\* reported equal if and only if the files have the same number of signals
\* and every signal has the same number of samples, all of them identical.
C18_SignalsEqual ==
    call.pc = "returned" =>
        (call.signals_equal <=>
            /\ Len(call.signals1) = Len(call.signals2)
            /\ \A j \in 1..Len(call.signals1) :
                  /\ Len(call.signals1[j]) = Len(call.signals2[j])
                  /\ \A x \in 1..Len(call.signals1[j]) : call.signals1[j][x] = call.signals2[j][x])

\* C18 (amended): the signals of two files are reported equal if and only if
\* the files have the same number of signals and every signal agrees sample
\* by sample up to the length of the shorter of the two.
C18_InitialValuesEqual ==
    call.pc = "returned" =>
        (call.signals_equal <=>
            /\ Len(call.signals1) = Len(call.signals2)
            /\ \A j \in 1..Len(call.signals1) :
                  \A x \in 1..Len(call.signals1[j]) :
                      x <= Len(call.signals2[j]) => call.signals1[j][x] = call.signals2[j][x])

\* signals of different lengths were reported equal
C18_PrefixEqual ==
    /\ call.pc = "returned"
    /\ call.signals_equal
    /\ Len(call.signals1[1]) < Len(call.signals2[1])

(***************************************************************************)
(* Claims about overwrite_edfD_to_edfC                                     *)
(***************************************************************************)

\* the file is the original but for the bytes 'EDF+C   ' at offsets 192..199
OnlyMarkerWritten ==
    /\ Len(fs.target) = Len(hist.orig)
    /\ \A b \in 1..Len(hist.orig) :
          IF b \in 193..200
          THEN fs.target[b] = <<"E", "D", "F", "+", "C", " ", " ", " ">>[b - 192]
          ELSE fs.target[b] = hist.orig[b]

RECURSIVE RunAlone(_, _)
RunAlone(c, files) ==
    IF Ended(c) THEN files
    ELSE LET step == UpdateStep(c, files) IN RunAlone(step.call, step.files)

\* C21 (as claimed): independence across files -- of two calls on two
\* different target paths, whatever the order of their steps, neither opens
\* the other's target or scratch file, and when both have ended each target
\* is the file its call leaves when it runs alone.
C21_Independence ==
    /\ \A p \in DOMAIN call, q \in DOMAIN call :
          p # q => hist.opened[p] \cap {call[q].path, TempPath(call[q].path)} = {}
    /\ (\A p \in DOMAIN call : Ended(call[p])) =>
           \A p \in DOMAIN call :
               fs[call[p].path] = RunAlone(hist.start[p], hist.orig)[call[p].path]

(***************************************************************************)
(* Claims about the parser on records that differ after the first null     *)
(***************************************************************************)

C26_BestEffort ==
    /\ (parser.pc = "tal" /\ parser.i < parser.null_pos) => parser.i < Len(parser.content)
    /\ parser.pc = "done" => Returned(parser) = given.triples

(***************************************************************************)
(* Claims about the termination of the parser                              *)
(***************************************************************************)

\* the place of a step in one pass over a byte: at the same read index the
\* parser only moves from a scan to the texts loop, from there to the outer
\* loop, and from there to the end
LoopRank ==
    [start |-> 6, onset |-> 5, duration |-> 5, text |-> 4, texts |-> 3, tal |-> 2, done |-> 1]

\* C29: termination of parse_edf_annotation_record -- every step of the
\* parser increases the read index or keeps it and moves on from the loop it
\* is in, so every iteration of a scanning loop, of the texts loop and of the
\* outer TAL loop strictly increases the read index; the read index never
\* exceeds the record length, which bounds the number of steps.
C29_Terminates ==
    [][parser' # parser =>
        /\ \/ parser'.i > parser.i
           \/ parser'.i = parser.i /\ LoopRank[parser'.pc] < LoopRank[parser.pc]
        /\ parser'.pc = parser.pc => parser'.i > parser.i
        /\ (parser.pc \in {"texts", "text"} /\ parser'.pc = "tal") => parser'.i > parser.onset_start
        /\ parser'.i <= Len(parser'.content)]_vars

\* C29 (witness): a finished parse that emitted a triple and whose read index
\* is the record length
C29_ScannedToEnd ==
    /\ parser.pc = "done"
    /\ parser.i = Len(parser.content)
    /\ parser.ann_texts # <<>>

(***************************************************************************)
(* Claims about the annotation slice geometry.  The file's layout is taken *)
(* here from its header alone: N slots, L[j] bytes per record for slot j,  *)
(* the annotation signal the slot that carries the label.                  *)
(***************************************************************************)
AnnotationSlotOf(file) ==
    CHOOSE j \in 0..(SlotCount(file) - 1) : Strip(SlotFieldBytes(file, j, "label")) = AnnotationLabel

\* the bytes (0-based file offsets) of the samples of slot j in record r
SampleBytes(file, r, j) ==
    LET first == DataStart(file) + r * RecordBytes(file) + SlotOffset(file, j)
    IN  first..(first + 2 * SlotSamples(file, j) - 1)

\* C27: annotation slice geometry -- the slice processed for data record r
\* starts at 256 + 256 N + r sum(L) + sum(L[0..a-1]) and has length L[a];
\* the slices of different records are disjoint, lie inside the data region
\* and contain no byte of another signal's samples.
C27_SliceGeometry ==
    LET file == hist.orig
        N == SlotCount(file)
        a == AnnotationSlotOf(file)
        R == PyInt(HeaderFieldBytes(file, "num_data_records"))
    IN  \A s \in hist.slices :
            LET range == s.start..(s.start + s.length - 1)
            IN  /\ s.r \in 0..(R - 1)
                /\ s.start = 256 + 256 * N + s.r * RecordBytes(file) + SlotOffset(file, a)
                /\ s.length = 2 * SlotSamples(file, a)
                /\ \A t \in hist.slices :
                       t.r # s.r => range \cap (t.start..(t.start + t.length - 1)) = {}
                /\ s.start >= DataStart(file)
                /\ s.start + s.length <= Len(file)
                /\ \A r \in 0..(R - 1), j \in 0..(N - 1) :
                       j # a => range \cap SampleBytes(file, r, j) = {}

\* C27 (witness): the scan of a file whose annotation signal lies between
\* two ordinary signals of different lengths has processed every record
C27_MiddleSliceScanned ==
    /\ call.pc = "returned"
    /\ Cardinality(hist.slices) = NumRecords
    /\ SlotCount(hist.orig) = 3
    /\ AnnotationSlotOf(hist.orig) = 1
    /\ SlotSamples(hist.orig, 0) # SlotSamples(hist.orig, 2)

(***************************************************************************)
(* Claims about the subject pipeline                                       *)
(***************************************************************************)

\* C30 (as claimed): inputs are read-only for the subject pipeline -- when
\* clean_subject_edf_files has ended, by returning or by raising (an aborted
\* validation prompt included), the input directory holds the same files
\* with the same bytes as before the call, files marked EDF+D included;
\* files are created under the output path only.
C30_InputsReadOnly ==
    call.pc \in {"returned", "raised"} =>
        /\ DOMAIN fs.input = DOMAIN hist.input
        /\ \A filename \in DOMAIN hist.input : fs.input[filename] = hist.input[filename]

====
